---- MODULE Spec2Model ----
(***************************************************************************)
(* pex: the atomic directory (src/pex/atomic_directory.py) and the file    *)
(* lock it is guarded by (src/pex/fs/lock.py, src/pex/fs/_posix.py,        *)
(* src/pex/fs/_windows.py).                                                *)
(*                                                                         *)
(* One target_dir is shared by NCallers callers, which are either          *)
(* processes of their own or the threads of one process.  A behaviour is   *)
(* either                                                                  *)
(*   - locked:   every caller runs the atomic_directory context manager,   *)
(*               all of them share the work_dir "<target_dir>.lck.work";   *)
(*   - unlocked: every caller uses AtomicDirectory directly, each with a   *)
(*               work_dir "<target_dir>.<uuid4>.work" of its own,          *)
(*               populates it and calls finalize.                          *)
(* A step of the model is one file-system or lock call of the code, so     *)
(* that every interleaving of the callers' calls is a behaviour.           *)
(***************************************************************************)
EXTENDS Integers, FiniteSets, Sequences, TLC

\* Bounds of the model.
NCallers == 2
NFiles == 2

NSources == 3
NDsts == 2
MaxRecorded == 4
MaxFiles == 2
MaxBody == 1

Callers == 1 .. NCallers
NoCaller == 0

\* The work directories: LckWork is "<target_dir>.lck.work", the one every
\* locked slot gets; caller c's unlocked slot gets the uuid-named directory c.
LckWork == 0
WorkDirs == {LckWork} \cup Callers

\* A file is named by the caller that wrote it and its rank in that caller's
\* population; writer NoCaller is a lock holder that ended abnormally before
\* the behaviour starts.
Files == (Callers \cup {NoCaller}) \X (1 .. NFiles)

\* A directory either does not exist or holds a set of files.
Absent == [exists |-> FALSE, files |-> {}]
Dir(fs) == [exists |-> TRUE, files |-> fs]

\* What caller c's block writes when it runs to its end.
Complete(c) == {<<c, i>> : i \in 1 .. NFiles}

\* The values of atomic_directory's lock_style parameter: None (the
\* default), FileLockStyle.BSD and FileLockStyle.POSIX.
LockStyles == {"none", "bsd", "posix"}

\* What os.environ holds for _PEX_FILE_LOCK_STYLE.
EnvStyles == {"unset", "bsd", "posix"}

\* The error numbers the code tells apart, and one that stands for the rest.
Errnos == {"EEXIST", "ENOTEMPTY", "ENOENT", "EACCES"}

\* The sources of a Provenance, each named by its display, and the
\* destinations under the target directory.
Sources == 1 .. NSources
Dsts == 1 .. NDsts

\* The relative paths under the install root, in ascending order as Python
\* compares the strings (by code point: '_' < 'b' < 'd' < 'm' < 'p', and
\* "p-1.data" < "p-1.dist-info", and 'I' < 'R' < 'e', and "REC" < "REQ").
PathsAscending ==
    << "__pycache__/m.cpython-311.pyc",
       "bin/run",
       "bin/tool",
       "d.py",
       "m.py",
       "p-1.data/purelib/d.py",
       "p-1.data/scripts/tool",
       "p-1.dist-info/INSTALLER",
       "p-1.dist-info/RECORD",
       "p-1.dist-info/REQUESTED",
       "p-1.dist-info/entry_points.txt" >>

Paths == {PathsAscending[i] : i \in DOMAIN PathsAscending}

\* A file either does not exist or holds a sequence of lines.
NoFile == [exists |-> FALSE, lines |-> <<>>]
File(lines) == [exists |-> TRUE, lines |-> lines]

\* Optional[T]: None, or the one value.
None == {}
Some(x) == {x}

VARIABLES
    locked,        \* TRUE: callers use atomic_directory; FALSE: AtomicDirectory
    threads,       \* TRUE: the callers are threads of one process; FALSE: each
                   \* caller is a process of its own
    lock_style,    \* the lock_style the callers pass to atomic_directory
    environ,       \* os.environ's value for _PEX_FILE_LOCK_STYLE, or unset
    windows,       \* pex.os.WINDOWS: the platform is Windows, else POSIX
    pc,            \* each caller's position in the code
    target,        \* target_dir
    work,          \* the work directories
    lockfile,      \* the lockfile exists
    fd,            \* each caller's lock file descriptor: none, open, closed
    holder,        \* the caller holding the exclusive lock, or NoCaller
    nwritten,      \* how many files each caller's block has written
    exc,           \* the exception propagating out of each caller's call
    ran,           \* the caller's block was handed a slot that is not finalized
    fast,          \* the caller's first existence check found target_dir
    finRes,        \* how the caller's finalize went: none, finalized (the early
                   \* return), ok (renamed) or the errno of the rename
    blockRaised,   \* the caller's block raised
    unlockFailed,  \* the caller's unlock call raised
    publisher      \* the caller whose rename created target_dir, or NoCaller

\* The state of the atomic directory and its lock.
atomicVars == <<locked, threads, lock_style, environ, windows, pc, target,
                work, lockfile, fd, holder, nwritten, exc, ran, fast, finRes,
                blockRaised, unlockFailed, publisher>>

VARIABLES
    provenance,    \* Provenance._provenance: the sources recorded for each
                   \* destination, in the order they were recorded
    outcome,       \* how the last call on the Provenance ended: none (record
                   \* returned), returned, warned or raised (check_collisions)
    collisions_ok, \* the collisions_ok argument of the last check_collisions
    message,       \* the collisions the last check_collisions put in its
                   \* message: destination -> fingerprint -> displays
    opened         \* the sources whose content has been read

\* The state of a Provenance.
provVars == <<provenance, outcome, collisions_ok, message, opened>>

VARIABLES
    installed_files, \* Record.installed_files (Recorder._installed_files)
    disk,            \* the files under the install root
    requested,       \* the requested argument of the last Record.write
    read_back,       \* the InstalledFiles the last Record.read yielded
    exclude,         \* the paths the exclude of the last Record.read accepts
    rec_pc           \* new, written (Record.write returned) or read

\* The state of a Record and of the install root it is written to.
recordVars ==
    <<installed_files, disk, requested, read_back, exclude, rec_pc>>

VARIABLES
    wheel,         \* the wheel being installed: the names of its entries, the
                   \* lines of its data script and its entry points
    args,          \* the arguments of install_wheel
    ipc,           \* the position of install_wheel
    copies,        \* Recorder._copies: the (source, destination) pairs
    data_sources,  \* the entries of the data directory, set aside by unpack
    data_scripts,  \* the destinations of the scripts spread has rewritten
    next_ep,       \* the index of the next entry point to handle
    warned,        \* the compiler's failure has been warned of
    err            \* the error install_wheel raised, or None

\* The state of one call of install_wheel.
installVars == <<wheel, args, ipc, copies, data_sources, data_scripts,
                 next_ep, warned, err>>

VARIABLES
    layout_file,   \* the layout sidecar ".layout.json" under prefix_dir
    load_called,   \* the call made on the sidecar: none, load or maybe_load
    load_result,   \* how that call ended and what it returned
    layout_version, \* InstalledWheel.layout_version
    chroot,        \* the files under prefix_dir in the order the walks meet
                   \* them, as (source, destination) pairs
    method,        \* none, reinstall_flat or reinstall_venv: the call made
    gen_pc,        \* the iterator the call returned: idle (no call),
                   \* created (not started), suspended (at a yield),
                   \* exhausted, raised (an error left it), or closed
                   \* (dropped by the caller)
    pending,       \* the pairs the iterator has still to yield
    consumed       \* the pairs the caller has been given

VARIABLES
    symlink,       \* the symlink argument of the re-install
    islinks,       \* the sources under prefix_dir that are symbolic links
    link,          \* the local "link" of each of the two legacy walks
    dirs,          \* the directories the target holds
    walk_log,      \* what the legacy walks did with each entry they met
    walk_err       \* None, or the OS error a legacy walk has raised: still
                   \* inside the walk while the iterator is suspended

\* The state of the legacy walks of a re-install.
walkVars == <<symlink, islinks, dirs, link, walk_log, walk_err>>

\* The state of a re-install of an installed wheel directory.
reinstallVars ==
    <<layout_version, chroot, method, gen_pc, pending, consumed, walkVars>>

VARIABLES
    given_relpath, \* None, or who constructs a Record (a client, or a
                   \* Recorder asked for its Recording) and with what relpath
    record_made,   \* the Record constructed, or None
    construct_err  \* the error the construction raised, or None

\* The state of the construction of a Record.
constructVars == <<given_relpath, record_made, construct_err>>

VARIABLES
    prefix_files,  \* the files of the prefix_dir that save is called on
    save_args,     \* the record_relpath and data_dir given to save
    saved          \* None, or the InstalledWheel that save returned

\* The state of a call of InstalledWheel.save.
saveVars == <<prefix_files, save_args, saved>>

\* The state of an installed wheel directory and of the calls on it.
wheelVars ==
    <<layout_file, load_called, load_result, reinstallVars, constructVars,
      saveVars>>

vars == <<atomicVars, provVars, recordVars, installVars, wheelVars>>

\* The target_dir the callers share: a path is the sequence of its
\* components, a component the sequence of its tokens.
target_dir == << <<"cache">>, <<"t">> >>

\* uuid4().hex: a name no other call of uuid4 gives.
uuid4_hex(c) == <<"uuid4", c>>

\* A tag of its own for every slot, locked or not.
tag_of_its_own(c) == uuid4_hex(c)

\* AtomicDirectory.__init__: '"lck" if locked else uuid4().hex'
tag(c) == IF locked THEN <<"lck">> ELSE uuid4_hex(c)

\* "{}.{}.work".format(target_dir, tag): the text is added to the last
\* component of the path.
format(path, t) ==
    [path EXCEPT ![Len(path)] = @ \o <<".">> \o t \o <<".work">>]

\* AtomicDirectory.__init__: the path of the work_dir of caller c's slot.
work_dir_name(c) == format(target_dir, tag(c))

\* The work directory of caller c's slot: the one named work_dir_name(c).
work_dir(c) == IF tag(c) = <<"lck">> THEN LckWork ELSE c

\* AtomicDirectory.is_finalized
is_finalized == target.exists

AtomicInit ==
    /\ locked \in BOOLEAN
    /\ threads \in (IF locked THEN BOOLEAN ELSE {FALSE})
    /\ lock_style \in (IF locked THEN LockStyles ELSE {"none"})
    /\ environ \in (IF locked THEN EnvStyles ELSE {"unset"})
    /\ windows \in (IF locked THEN BOOLEAN ELSE {FALSE})
    /\ pc = [c \in Callers |-> "start"]
    /\ target = Absent
    \* a holder of the lock that ended abnormally may have left its work_dir
    /\ \E stale \in BOOLEAN :
         work = [w \in WorkDirs |->
                   IF w = LckWork /\ stale /\ locked
                   THEN Dir({<<NoCaller, 1>>}) ELSE Absent]
    /\ lockfile = FALSE
    /\ fd = [c \in Callers |-> "none"]
    /\ holder = NoCaller
    /\ nwritten = [c \in Callers |-> 0]
    /\ exc = [c \in Callers |-> "none"]
    /\ ran = [c \in Callers |-> FALSE]
    /\ fast = [c \in Callers |-> FALSE]
    /\ finRes = [c \in Callers |-> "none"]
    /\ blockRaised = [c \in Callers |-> FALSE]
    /\ unlockFailed = [c \in Callers |-> FALSE]
    /\ publisher = NoCaller

\* A Provenance nothing has been recorded in and nothing is called on.
ProvIdle ==
    /\ provenance = [dst \in Dsts |-> <<>>]
    /\ outcome = "none"
    /\ collisions_ok = FALSE
    /\ message = <<>>
    /\ opened = {}

\* An empty install root and no Record.
RecordIdle ==
    /\ installed_files = <<>>
    /\ disk = [path \in Paths |-> NoFile]
    /\ requested = FALSE
    /\ read_back = <<>>
    /\ exclude = {}
    /\ rec_pc = "new"

\* No install_wheel call.
InstallIdle ==
    /\ wheel = [names |-> {}, script |-> <<>>, entry_points |-> <<>>]
    /\ args = [finalize |-> TRUE, requested |-> TRUE, compile |-> FALSE,
               hermetic_scripts |-> TRUE]
    /\ ipc = "idle"
    /\ copies = <<>>
    /\ data_sources = {}
    /\ data_scripts = <<>>
    /\ next_ep = 1
    /\ warned = FALSE
    /\ err = None

\* No legacy walk: the arguments at their defaults.
WalkIdle ==
    /\ symlink = FALSE
    /\ islinks = {}
    /\ dirs = {}
    /\ link = [w \in {"stash", "site"} |-> TRUE]
    /\ walk_log = <<>>
    /\ walk_err = None

\* No call of save.
SaveIdle ==
    /\ prefix_files = {}
    /\ save_args = [record_relpath |-> "", data_dir |-> None]
    /\ saved = None

\* No installed wheel directory.
WheelIdle ==
    /\ WalkIdle
    /\ SaveIdle
    /\ layout_file = [kind |-> "absent"]
    /\ load_called = "none"
    /\ load_result = [raised |-> "none"]
    /\ layout_version = 1
    /\ chroot = <<>>
    /\ method = "none"
    /\ gen_pc = "idle"
    /\ pending = <<>>
    /\ consumed = <<>>
    /\ given_relpath = None
    /\ record_made = None
    /\ construct_err = None

Init == AtomicInit /\ ProvIdle /\ RecordIdle /\ InstallIdle /\ WheelIdle

----------------------------------------------------------------------------
(* atomic_directory, up to the yield of the slot                            *)

\* The first check of the double-checked locking: a finalized slot is
\* yielded at once, the block has nothing to do and the call returns.
\* The first check left out: every call goes on to the lock.
FirstCheckSkipped(c) == FALSE

FirstCheckFinalized(c) == is_finalized

FastCheck(c) ==
    /\ locked
    /\ pc[c] = "start"
    /\ IF FirstCheckFinalized(c)
       THEN /\ pc' = [pc EXCEPT ![c] = "done"]
            /\ fast' = [fast EXCEPT ![c] = TRUE]
       ELSE /\ pc' = [pc EXCEPT ![c] = "open"]
            /\ UNCHANGED fast
    /\ UNCHANGED <<provVars, recordVars, installVars, wheelVars>>
    /\ UNCHANGED <<locked, threads, lock_style, environ, windows,
                   target, work, lockfile, fd, holder, nwritten, exc,
                   ran, finRes, unlockFailed, publisher, blockRaised>>

\* lock.acquire: os.open(path, O_CREAT | O_WRONLY) creates the lockfile.
OpenLockfile(c) ==
    /\ pc[c] = "open"
    /\ lockfile' = TRUE
    /\ fd' = [fd EXCEPT ![c] = "open"]
    /\ pc' = [pc EXCEPT ![c] = "lock"]
    /\ UNCHANGED <<provVars, recordVars, installVars, wheelVars>>
    /\ UNCHANGED <<locked, threads, lock_style, environ, windows,
                   target, work, holder, nwritten, exc, ran, fast,
                   finRes, unlockFailed, publisher, blockRaised>>

\* atomic_directory: "style=FileLockStyle.BSD if lock_style is
\* FileLockStyle.BSD else FileLockStyle.POSIX"
acquire_style == IF lock_style = "bsd" THEN "bsd" ELSE "posix"

\* _is_bsd_lock: "lock_style or FileLockStyle.for_value(os.environ.get(
\* "_PEX_FILE_LOCK_STYLE", FileLockStyle.POSIX.value))".  A style that is
\* given is the style; the environment is looked at for a style of None
\* only, and _posix.py never imports os, so that look-up is a NameError.
file_lock_style(style) == IF style # "none" THEN style ELSE "NameError"

\* _is_bsd_lock: "return file_lock_style is FileLockStyle.BSD"
is_bsd_lock(style) == file_lock_style(style) = "bsd"

\* PosixFileLock.acquire: "fcntl.flock if _is_bsd_lock(style) else
\* fcntl.lockf"; the style atomic_directory hands it is never None.
lock_api == IF is_bsd_lock(acquire_style) THEN "flock" ELSE "lockf"

\* A lockf record lock belongs to the process: the lock calls of the threads
\* of one process never wait for one another.  A flock lock belongs to the
\* open file, and every caller opens the lockfile itself.
OwnLockOwners == ~threads \/ lock_api = "flock"

\* A lock call that returns at once, whoever holds the lock.
LockAlwaysGranted(c) == TRUE

\* lock_api(fd, LOCK_EX) returns only once no other owner holds the lock.
LockGranted(c) == ~OwnLockOwners \/ holder = NoCaller

\* lock.acquire on POSIX, PosixFileLock.acquire: the blocking exclusive
\* lock.
acquire(c) ==
    /\ ~windows
    /\ pc[c] = "lock"
    /\ LockGranted(c)
    /\ holder' = c
    /\ pc' = [pc EXCEPT ![c] = "recheck"]
    /\ UNCHANGED <<provVars, recordVars, installVars, wheelVars>>
    /\ UNCHANGED <<locked, threads, lock_style, environ, windows,
                   target, work, lockfile, fd, nwritten, exc, ran,
                   fast, finRes, unlockFailed, publisher, blockRaised>>

\* lock.acquire on Windows: "return WindowsFileLock.acquire(lock_fd)" calls
\* acquire(cls, fd, exclusive) without its exclusive argument, so TypeError
\* is raised before LockFileEx is called; the descriptor stays open.
WindowsFileLock_acquire(c) ==
    /\ windows
    /\ pc[c] = "lock"
    /\ exc' = [exc EXCEPT ![c] = "TypeError"]
    /\ pc' = [pc EXCEPT ![c] = "done"]
    /\ UNCHANGED <<provVars, recordVars, installVars, wheelVars>>
    /\ UNCHANGED <<locked, threads, lock_style, environ, windows,
                   target, work, lockfile, fd, holder, nwritten, ran,
                   fast, finRes, unlockFailed, publisher, blockRaised>>

\* The second check, made under the lock.
\* The second check left out: every lock holder goes on to populate.
SecondCheckSkipped(c) == FALSE

SecondCheckFinalized(c) == is_finalized

Recheck(c) ==
    /\ pc[c] = "recheck"
    /\ pc' = [pc EXCEPT ![c] =
                IF SecondCheckFinalized(c) THEN "release_lost" ELSE "mkwork"]
    /\ UNCHANGED <<provVars, recordVars, installVars, wheelVars>>
    /\ UNCHANGED <<locked, threads, lock_style, environ, windows,
                   target, work, lockfile, fd, holder, nwritten, exc,
                   ran, fast, finRes, unlockFailed, publisher, blockRaised>>

\* os.makedirs(work_dir) succeeds: the slot is yielded to the block.
MakeWorkDir(c) ==
    /\ locked
    /\ pc[c] = "mkwork"
    /\ ~work[work_dir(c)].exists
    /\ work' = [work EXCEPT ![work_dir(c)] = Dir({})]
    /\ ran' = [ran EXCEPT ![c] = TRUE]
    /\ pc' = [pc EXCEPT ![c] = "block"]
    /\ UNCHANGED <<provVars, recordVars, installVars, wheelVars>>
    /\ UNCHANGED <<locked, threads, lock_style, environ, windows,
                   target, lockfile, fd, holder, nwritten, exc, fast,
                   finRes, unlockFailed, publisher, blockRaised>>

\* os.makedirs(work_dir) raises OSError: EEXIST when work_dir exists, some
\* other error otherwise.  The handler builds its message from
\* threading.current_thread(), a name the module never imports, so NameError
\* leaves atomic_directory from inside the handler, before the try/finally
\* that releases the lock.
MakeWorkDirFails(c, e) ==
    /\ locked
    /\ pc[c] = "mkwork"
    /\ e \in {"EEXIST", "EACCES"}
    /\ (e = "EEXIST") = work[work_dir(c)].exists
    /\ exc' = [exc EXCEPT ![c] = "NameError"]
    /\ pc' = [pc EXCEPT ![c] = "done"]
    /\ UNCHANGED <<provVars, recordVars, installVars, wheelVars>>
    /\ UNCHANGED <<locked, threads, lock_style, environ, windows,
                   target, work, lockfile, fd, holder, nwritten, ran,
                   fast, finRes, unlockFailed, publisher, blockRaised>>

\* Direct use of AtomicDirectory: the caller makes its own work_dir.
Construct(c) ==
    /\ ~locked
    /\ pc[c] = "start"
    /\ work' = [work EXCEPT ![work_dir(c)] = Dir({})]
    /\ ran' = [ran EXCEPT ![c] = TRUE]
    /\ pc' = [pc EXCEPT ![c] = "block"]
    /\ UNCHANGED <<provVars, recordVars, installVars, wheelVars>>
    /\ UNCHANGED <<locked, threads, lock_style, environ, windows,
                   target, lockfile, fd, holder, nwritten, exc, fast,
                   finRes, unlockFailed, publisher, blockRaised>>

----------------------------------------------------------------------------
(* The caller's block                                                       *)

\* The block writes its next file under work_dir with safe_open, which makes
\* the parent directory when it is missing.
BlockWrite(c) ==
    /\ pc[c] = "block"
    /\ nwritten[c] < NFiles
    /\ work' = [work EXCEPT ![work_dir(c)] =
                  Dir(work[work_dir(c)].files \cup {<<c, nwritten[c] + 1>>})]
    /\ nwritten' = [nwritten EXCEPT ![c] = nwritten[c] + 1]
    /\ UNCHANGED <<provVars, recordVars, installVars, wheelVars>>
    /\ UNCHANGED <<locked, threads, lock_style, environ, windows,
                   pc, target, lockfile, fd, holder, exc, ran, fast,
                   finRes, unlockFailed, publisher, blockRaised>>

\* The block returns: atomic_directory goes on to finalize.
BlockReturn(c) ==
    /\ pc[c] = "block"
    /\ nwritten[c] = NFiles
    /\ pc' = [pc EXCEPT ![c] = "fin_check"]
    /\ UNCHANGED <<provVars, recordVars, installVars, wheelVars>>
    /\ UNCHANGED <<locked, threads, lock_style, environ, windows,
                   target, work, lockfile, fd, holder, nwritten, exc,
                   ran, fast, finRes, unlockFailed, publisher, blockRaised>>

\* The block raises: finalize is skipped, the finally clause runs.
BlockRaise(c) ==
    /\ locked
    /\ pc[c] = "block"
    /\ exc' = [exc EXCEPT ![c] = "BlockError"]
    /\ blockRaised' = [blockRaised EXCEPT ![c] = TRUE]
    /\ pc' = [pc EXCEPT ![c] = "release"]
    /\ UNCHANGED <<provVars, recordVars, installVars, wheelVars>>
    /\ UNCHANGED <<locked, threads, lock_style, environ, windows,
                   target, work, lockfile, fd, holder, nwritten, ran,
                   fast, finRes, unlockFailed, publisher>>

----------------------------------------------------------------------------
(* AtomicDirectory.finalize and AtomicDirectory.cleanup                     *)

\* Where a caller is once finalize has exited.
AfterFinalize == IF locked THEN "release" ELSE "done"

\* finalize: "if self.is_finalized(): return"
FinalizeCheck(c) ==
    /\ pc[c] = "fin_check"
    /\ pc' = [pc EXCEPT ![c] = IF is_finalized THEN AfterFinalize ELSE "rename"]
    /\ finRes' = [finRes EXCEPT ![c] =
                    IF is_finalized THEN "finalized" ELSE "none"]
    /\ UNCHANGED <<provVars, recordVars, installVars, wheelVars>>
    /\ UNCHANGED <<locked, threads, lock_style, environ, windows,
                   target, work, lockfile, fd, holder, nwritten, exc,
                   ran, fast, unlockFailed, publisher, blockRaised>>

\* safe_rename is os.replace: a missing source is ENOENT, a target that is a
\* directory with entries is EEXIST or ENOTEMPTY, any call may fail some
\* other way (EACCES), and otherwise the source takes the place of target.
RenameOutcomes(src, dst) ==
    IF ~src.exists THEN {"ENOENT"}
    ELSE IF dst.exists /\ dst.files # {}
         THEN {"EEXIST", "ENOTEMPTY", "EACCES"}
    ELSE {"ok", "EACCES"}

\* finalize: "if e.errno not in (errno.EEXIST, errno.ENOTEMPTY): raise e"
\* Only "already exists" taken for a lost race.
SwallowedOnlyExists(e) == e = "EEXIST"

Swallowed(e) == e \in {"EEXIST", "ENOTEMPTY"}

Rename(c, e) ==
    /\ pc[c] = "rename"
    /\ e \in RenameOutcomes(work[work_dir(c)], target)
    /\ finRes' = [finRes EXCEPT ![c] = e]
    /\ IF e = "ok"
       THEN /\ target' = work[work_dir(c)]
            /\ work' = [work EXCEPT ![work_dir(c)] = Absent]
            /\ publisher' = c
            /\ UNCHANGED exc
       ELSE /\ exc' = [exc EXCEPT ![c] =
                         IF Swallowed(e) THEN exc[c] ELSE "OSError"]
            /\ UNCHANGED <<target, work, publisher>>
    /\ pc' = [pc EXCEPT ![c] = "fin_cleanup"]
    /\ UNCHANGED <<provVars, recordVars, installVars, wheelVars>>
    /\ UNCHANGED <<locked, threads, lock_style, environ, windows,
                   lockfile, fd, holder, nwritten, ran, fast,
                   unlockFailed, blockRaised>>

\* AtomicDirectory.cleanup: safe_rmtree(work_dir)
cleanup(c) == [work EXCEPT ![work_dir(c)] = Absent]

\* finalize: "finally: self.cleanup()"
FinalizeCleanup(c) ==
    /\ pc[c] = "fin_cleanup"
    /\ work' = cleanup(c)
    /\ pc' = [pc EXCEPT ![c] = AfterFinalize]
    /\ UNCHANGED <<provVars, recordVars, installVars, wheelVars>>
    /\ UNCHANGED <<locked, threads, lock_style, environ, windows,
                   target, lockfile, fd, holder, nwritten, exc, ran,
                   fast, finRes, unlockFailed, publisher, blockRaised>>

----------------------------------------------------------------------------
(* FileLock.release and the exits of atomic_directory                       *)

\* FileLock.release: "try: self._unlock() finally: os.close(self._locked_fd)"
\* release without the finally clause: a raising unlock skips os.close.
FdAfterReleaseSkipsClose(unlocked) ==
    IF unlocked THEN "closed" ELSE "open"

FdAfterRelease(unlocked) == "closed"

\* FileLock.release with an os.unlink of the lockfile added to it.
LockfileUnlinkedByRelease == FALSE

\* FileLock.release unlocks and closes the descriptor; it has no call that
\* removes the lockfile, and no other code of the lock has one either.
LockfileAfterRelease == lockfile

\* FileLock.release; unlocked = FALSE is an unlock call that raises.  Closing
\* the descriptor drops the lock it held.
release(c, unlocked, next) ==
    /\ fd' = [fd EXCEPT ![c] = FdAfterRelease(unlocked)]
    /\ lockfile' = LockfileAfterRelease
    /\ holder' = IF unlocked \/ fd'[c] = "closed" THEN NoCaller ELSE holder
    /\ unlockFailed' = [unlockFailed EXCEPT ![c] = ~unlocked]
    /\ exc' = [exc EXCEPT ![c] = IF unlocked THEN exc[c] ELSE "UnlockError"]
    /\ pc' = [pc EXCEPT ![c] = IF unlocked THEN next ELSE "done"]

\* The lost race: "try: yield atomic_dir finally: file_lock.release()"
ReleaseLost(c, unlocked) ==
    /\ pc[c] = "release_lost"
    /\ release(c, unlocked, "done")
    /\ UNCHANGED <<provVars, recordVars, installVars, wheelVars>>
    /\ UNCHANGED <<locked, threads, lock_style, environ, windows,
                   target, work, nwritten, ran, fast,
                   finRes, publisher, blockRaised>>

\* "finally: if file_lock: file_lock.release()"; atomic_dir.cleanup() is the
\* next statement, which a raising release skips.
ReleaseFinally(c, unlocked) ==
    /\ pc[c] = "release"
    /\ release(c, unlocked, "final_cleanup")
    /\ UNCHANGED <<provVars, recordVars, installVars, wheelVars>>
    /\ UNCHANGED <<locked, threads, lock_style, environ, windows,
                   target, work, nwritten, ran, fast,
                   finRes, publisher, blockRaised>>

\* "finally: ... atomic_dir.cleanup()", after the lock has been released.
FinalCleanup(c) ==
    /\ pc[c] = "final_cleanup"
    /\ work' = cleanup(c)
    /\ pc' = [pc EXCEPT ![c] = "done"]
    /\ UNCHANGED <<provVars, recordVars, installVars, wheelVars>>
    /\ UNCHANGED <<locked, threads, lock_style, environ, windows,
                   target, lockfile, fd, holder, nwritten, exc, ran,
                   fast, finRes, unlockFailed, publisher, blockRaised>>

----------------------------------------------------------------------------

Next ==
    \/ \E c \in Callers : FastCheck(c)
    \/ \E c \in Callers : OpenLockfile(c)
    \/ \E c \in Callers : acquire(c)
    \/ \E c \in Callers : WindowsFileLock_acquire(c)
    \/ \E c \in Callers : Recheck(c)
    \/ \E c \in Callers : MakeWorkDir(c)
    \/ \E c \in Callers, e \in Errnos : MakeWorkDirFails(c, e)
    \/ \E c \in Callers : Construct(c)
    \/ \E c \in Callers : BlockWrite(c)
    \/ \E c \in Callers : BlockReturn(c)
    \/ \E c \in Callers : BlockRaise(c)
    \/ \E c \in Callers : FinalizeCheck(c)
    \/ \E c \in Callers, e \in Errnos \cup {"ok"} : Rename(c, e)
    \/ \E c \in Callers : FinalizeCleanup(c)
    \/ \E c \in Callers, unlocked \in BOOLEAN : ReleaseLost(c, unlocked)
    \/ \E c \in Callers, unlocked \in BOOLEAN : ReleaseFinally(c, unlocked)
    \/ \E c \in Callers : FinalCleanup(c)

Spec == Init /\ [][Next]_vars

TypeOK ==
    /\ locked \in BOOLEAN
    /\ pc \in [Callers -> {"start", "open", "lock", "recheck", "mkwork",
                           "block", "fin_check", "rename", "fin_cleanup",
                           "release_lost", "release", "final_cleanup", "done"}]
    /\ target.exists \in BOOLEAN /\ target.files \subseteq Files
    /\ \A w \in WorkDirs :
         work[w].exists \in BOOLEAN /\ work[w].files \subseteq Files
    /\ lockfile \in BOOLEAN
    /\ fd \in [Callers -> {"none", "open", "closed"}]
    /\ holder \in Callers \cup {NoCaller}
    /\ nwritten \in [Callers -> 0 .. NFiles]
    /\ exc \in [Callers -> {"none", "BlockError", "OSError", "NameError",
                           "UnlockError", "TypeError"}]
    /\ environ \in EnvStyles
    /\ windows \in BOOLEAN
    /\ finRes \in [Callers -> Errnos \cup {"none", "finalized", "ok"}]
    /\ blockRaised \in [Callers -> BOOLEAN]
    /\ publisher \in Callers \cup {NoCaller}

----------------------------------------------------------------------------
(* Provenance (src/pex/provenance.py)                                       *)

\* The bytes a source yields when opened: the sources with an odd display
\* hold one content, those with an even display another.
source_content(src) == IF src % 2 = 1 THEN "a" ELSE "b"

\* Source.fingerprint with the bug of hashing the display, not the content.
fingerprint_of_display(src) == <<"sha1", src>>

\* Source.fingerprint: the sha1 hex digest of what the source yields; two
\* sources have one fingerprint exactly when they yield the same bytes.
fingerprint(src) == <<"sha1", source_content(src)>>

\* The sources recorded in all.
Recorded ==
    LET RECURSIVE count(_)
        count(dst) == IF dst = 0 THEN 0
                      ELSE Len(provenance[dst]) + count(dst - 1)
    IN count(NDsts)

\* The argument of record: one or two (Source, destination) pairs.
SrcToDst ==
    {<<p>> : p \in Sources \X Dsts}
    \cup {<<p, q>> : p \in Sources \X Dsts, q \in Sources \X Dsts}

\* "for src, dst in src_to_dst: self._provenance[dst].append(src)"
RECURSIVE appended(_, _)
appended(prov, src_to_dst) ==
    IF src_to_dst = <<>> THEN prov
    ELSE LET src == Head(src_to_dst)[1]
             dst == Head(src_to_dst)[2]
         IN appended([prov EXCEPT ![dst] = Append(@, src)],
                     Tail(src_to_dst))

\* Provenance.record
record(src_to_dst) ==
    /\ Recorded + Len(src_to_dst) <= MaxRecorded
    /\ provenance' = appended(provenance, src_to_dst)
    /\ outcome' = "none"
    /\ message' = <<>>
    /\ UNCHANGED <<wheelVars, atomicVars>>
    /\ UNCHANGED <<recordVars, installVars, collisions_ok, opened>>

\* Every destination that has a source taken for a potential collision.
potential_collisions_any == {dst \in Dsts : Len(provenance[dst]) > 0}

\* check_collisions: "{dst: srcs ... if len(srcs) > 1}"
potential_collisions == {dst \in Dsts : Len(provenance[dst]) > 1}

\* check_collisions: "contents[src.fingerprint()].append(src.display)"
contents(srcs) ==
    [fp \in {fingerprint(srcs[i]) : i \in DOMAIN srcs} |->
        SelectSeq(srcs, LAMBDA src : fingerprint(src) = fp)]

\* check_collisions: "if len(contents) > 1: collisions[dst] = contents"
collisions ==
    [dst \in {d \in potential_collisions :
                Cardinality(DOMAIN contents(provenance[d])) > 1} |->
        contents(provenance[dst])]

\* Provenance.check_collisions
check_collisions(ok) ==
    /\ collisions_ok' = ok
    /\ opened' = opened \cup
                 UNION {{provenance[dst][i] : i \in DOMAIN provenance[dst]} :
                          dst \in potential_collisions}
    /\ IF DOMAIN collisions = {}
       THEN outcome' = "returned" /\ message' = <<>>
       ELSE /\ outcome' = IF ~ok THEN "raised" ELSE "warned"
            /\ message' = collisions
    /\ UNCHANGED <<wheelVars, atomicVars, recordVars, installVars, provenance>>

\* The atomic directory left alone: no caller has started.
AtomicIdle == AtomicInit /\ ~locked /\ work = [w \in WorkDirs |-> Absent]

\* A new Provenance: "defaultdict(list)"
ProvInit ==
    ProvIdle /\ AtomicIdle /\ RecordIdle /\ InstallIdle /\ WheelIdle

ProvNext ==
    \/ \E src_to_dst \in SrcToDst : record(src_to_dst)
    \/ \E ok \in BOOLEAN : check_collisions(ok)

ProvSpec == ProvInit /\ [][ProvNext]_vars

----------------------------------------------------------------------------
(* Record and InstalledFile (src/pex/pep_376.py)                            *)

\* Record.relpath, the path of the manifest, and the REQUESTED marker that
\* Record.write puts next to it.
relpath == "p-1.dist-info/RECORD"
requested_path == "p-1.dist-info/REQUESTED"

\* The place of a path in the ascending order of the paths.
rank(path) == CHOOSE i \in DOMAIN PathsAscending : PathsAscending[i] = path

\* The value of an Optional that is not None.
the(opt) == CHOOSE x \in opt : TRUE

\* str(int): the decimal digits of a size.
RECURSIVE str(_)
str(n) == IF n < 10 THEN <<n>> ELSE Append(str(n \div 10), n % 10)

\* int(str): the number a non-empty run of decimal digits denotes.
RECURSIVE int(_)
int(digits) ==
    IF Len(digits) = 1 THEN digits[1]
    ELSE 10 * int(SubSeq(digits, 1, Len(digits) - 1)) + digits[Len(digits)]

\* os.stat(path).st_size: every token of a line counts as one byte.
RECURSIVE st_size(_)
st_size(lines) ==
    IF lines = <<>> THEN 0 ELSE Len(Head(lines)) + st_size(Tail(lines))

\* Hash: the value is the text "<alg>=<digest>".
Hash(value) == [value |-> value]

\* Hash.create over sha256: the digest stands for the content it was
\* computed from (no two contents of the model share a digest).
Hash_create(lines) == Hash(<<"sha256", "=", lines>>)

InstalledFile(path, hash, size) == [path |-> path, hash |-> hash, size |-> size]

\* InstalledFile.create: the hash and the size of the file at path on disk d.
InstalledFile_create(d, path) ==
    InstalledFile(path, Some(Hash_create(d[path].lines)),
                  Some(st_size(d[path].lines)))

\* pex.common.touch: creates the file, empty, unless it exists.
touch(file) == IF file.exists THEN file ELSE File(<<>>)

\* csv_writer.writerow(attr.astuple(installed_file, recurse=False)): the
\* three fields of a row; None is written as the empty field, a Hash as its
\* value and a size in decimal.
writerow(f) ==
    << f.path,
       IF f.hash = None THEN <<>> ELSE the(f.hash).value,
       IF f.size = None THEN <<>> ELSE str(the(f.size)) >>

\* "sorted(installed_files, key=lambda installed: installed.path)": a stable
\* sort, files of one path keep their order.
RECURSIVE insert(_, _)
insert(f, files) ==
    IF files = <<>> THEN <<f>>
    ELSE IF rank(f.path) <= rank(Head(files).path) THEN <<f>> \o files
    ELSE <<Head(files)>> \o insert(f, Tail(files))

RECURSIVE sort_by_path(_)
sort_by_path(files) ==
    IF files = <<>> THEN <<>>
    ELSE insert(Head(files), sort_by_path(Tail(files)))

\* sorted(installed_files, key=path) that leaves the order as it is.
unsorted(files) == files

sorted(files) == sort_by_path(files)

\* The rows Record.write writes for installed_files on disk d (d has the
\* REQUESTED marker when req).
rows_written(files, d, req) ==
    LET all == files
               \o (IF req
                   THEN <<InstalledFile_create(d, requested_path)>>
                   ELSE <<>>)
               \o <<InstalledFile(relpath, None, None)>>
        ordered == sorted(all)
    IN [i \in DOMAIN ordered |-> writerow(ordered[i])]

\* The disk after Record.write.
disk_written(files, d, req) ==
    LET touched == [d EXCEPT ![requested_path] = IF req THEN touch(@) ELSE @]
    IN [touched EXCEPT ![relpath] = File(rows_written(files, touched, req))]

\* Record.write
write(req) ==
    /\ disk' = disk_written(installed_files, disk, req)
    /\ requested' = req
    /\ read_back' = <<>>
    /\ exclude' = {}
    /\ rec_pc' = "written"
    /\ UNCHANGED <<wheelVars, atomicVars>>
    /\ UNCHANGED <<provVars, installVars, installed_files>>

\* Record.read: "Hash(fingerprint) if fingerprint else None"
hash_read(text) == IF text # <<>> THEN Some(Hash(text)) ELSE None

\* Record.read with "if int(file_size)" for "if file_size".
size_read_zero_is_none(text) ==
    IF text # <<>> /\ int(text) # 0 THEN Some(int(text)) ELSE None

\* Record.read: "int(file_size) if file_size else None"
size_read(text) == IF text # <<>> THEN Some(int(text)) ELSE None

\* The InstalledFiles Record.read yields for the rows, the rows whose path
\* exclude accepts left out.
files_read(rows, excl) ==
    LET kept == SelectSeq(rows, LAMBDA row : row[1] \notin excl)
    IN [i \in DOMAIN kept |->
          InstalledFile(kept[i][1], hash_read(kept[i][2]),
                        size_read(kept[i][3]))]

\* Record.read of the lines of the manifest on disk.
read(excl) ==
    /\ rec_pc # "new"
    /\ disk[relpath].exists
    /\ read_back' = files_read(disk[relpath].lines, excl)
    /\ exclude' = excl
    /\ rec_pc' = "read"
    /\ UNCHANGED <<wheelVars, atomicVars, provVars, installVars>>
    /\ UNCHANGED <<installed_files, disk, requested>>

\* The hashes and sizes of the InstalledFiles a Record is made of.
Hashes == {None, Some(Hash_create(<<>>)), Some(Hash_create(<< <<"x">> >>))}
Sizes == {None, Some(0), Some(12)}

\* The paths of the files a Record is made of: never the manifest's own,
\* which Recorder.record_file leaves out.
RecordedPaths == {"bin/tool", "m.py", "p-1.dist-info/entry_points.txt"}

InstalledFiles ==
    {InstalledFile(path, hash, size) :
       path \in RecordedPaths, hash \in Hashes, size \in Sizes}

\* A Record of up to MaxFiles InstalledFiles, not yet written.
RecordInit ==
    /\ installed_files \in
         UNION {[1 .. n -> InstalledFiles] : n \in 0 .. MaxFiles}
    /\ disk = [path \in Paths |-> NoFile]
    /\ requested = FALSE
    /\ read_back = <<>>
    /\ exclude = {}
    /\ rec_pc = "new"
    /\ AtomicIdle /\ ProvIdle /\ InstallIdle /\ WheelIdle

RecordNext ==
    \/ \E req \in BOOLEAN : write(req)
    \/ \E excl \in {{}, {"m.py"}} : read(excl)

RecordSpec == RecordInit /\ [][RecordNext]_vars

----------------------------------------------------------------------------
(* install_wheel (src/pex/pep_427.py): scripts and the Recorder             *)

\* A line of a file is a sequence of tokens, each standing for a run of
\* bytes: "#!", an interpreter name or path, " -", one switch letter, the
\* line terminator "\n", or text the installer does not look into.
Letters == {"i", "s", "E", "u"}

\* "for line in script_fi": the lines of a run of tokens, each line ending
\* with its terminator (the last one may lack it).
RECURSIVE split_lines(_)
split_lines(tokens) ==
    IF tokens = <<>> THEN <<>>
    ELSE IF \E i \in DOMAIN tokens : tokens[i] = "\n"
    THEN LET i == CHOOSE k \in DOMAIN tokens :
                     /\ tokens[k] = "\n"
                     /\ \A j \in 1 .. k - 1 : tokens[j] # "\n"
         IN <<SubSeq(tokens, 1, i)>>
            \o split_lines(SubSeq(tokens, i + 1, Len(tokens)))
    ELSE <<tokens>>

\* bytes.partition(sep)[2]: what follows the first sep, or nothing when
\* there is no sep.
after_partition(line, sep) ==
    IF \E i \in DOMAIN line : line[i] = sep
    THEN LET i == CHOOSE k \in DOMAIN line :
                     /\ line[k] = sep
                     /\ \A j \in 1 .. k - 1 : line[j] # sep
         IN SubSeq(line, i + 1, Len(line))
    ELSE <<>>

\* bytes.partition(sep)[0]: what precedes the first sep, or the whole.
before_partition(line, sep) ==
    IF \E i \in DOMAIN line : line[i] = sep
    THEN LET i == CHOOSE k \in DOMAIN line :
                     /\ line[k] = sep
                     /\ \A j \in 1 .. k - 1 : line[j] # sep
         IN SubSeq(line, 1, i - 1)
    ELSE line

\* is_script with the pattern of needs_processing: the file starts with
\* "#!" and the rest of its first line matches
\* "^pythonw?(?: -[a-zA-Z]+)?$", where $ also matches before a final "\n".
is_script(lines) ==
    /\ lines # <<>>
    /\ Len(lines[1]) >= 2
    /\ lines[1][1] = "#!"
    /\ lines[1][2] \in {"python", "pythonw"}
    /\ LET rest == SubSeq(lines[1], 3, Len(lines[1]))
           body == IF rest # <<>> /\ rest[Len(rest)] = "\n"
                   THEN SubSeq(rest, 1, Len(rest) - 1) ELSE rest
       IN \/ body = <<>>
          \/ /\ Len(body) >= 2
             /\ body[1] = " -"
             /\ \A i \in 2 .. Len(body) : body[i] \in Letters

\* ScriptProcessor.needs_processing
needs_processing(lines) == is_script(lines)

\* OrderedSet(...).update(...): the elements in the order of their first
\* occurrence.
RECURSIVE OrderedSet(_)
OrderedSet(s) ==
    IF s = <<>> THEN <<>>
    ELSE LET init == OrderedSet(SubSeq(s, 1, Len(s) - 1))
             last == s[Len(s)]
         IN IF \E i \in DOMAIN init : init[i] = last THEN init
            ELSE Append(init, last)

\* create_script_args: "-" and the switches, sE first when hermetic_scripts,
\* or None when there is no switch.
create_script_args(hermetic_scripts, switches) ==
    LET all_switches ==
            OrderedSet((IF hermetic_scripts THEN <<"s", "E">> ELSE <<>>)
                       \o switches)
    IN IF all_switches = <<>> THEN None ELSE Some(<<"-">> \o all_switches)

\* The interpreter the scripts are rewritten for.
target_python == "/venv/bin/python"

\* pex.interpreter.create_shebang: "#!<python_exe>", then a space and the
\* arguments when there are any.
create_shebang(python_exe, python_args) ==
    <<"#!", python_exe>>
    \o (IF python_args = None THEN <<>> ELSE <<" ">> \o the(python_args))

\* ScriptProcessor.process of one script: the first line is replaced by the
\* shebang and "\n", every other line is written as read.
process(lines) ==
    LET shebang_args_bytes == after_partition(lines[1], " -")
        shebang ==
            create_shebang(target_python,
                           create_script_args(args.hermetic_scripts,
                                              shebang_args_bytes))
    IN split_lines(shebang \o <<"\n">>) \o Tail(lines)

\* The entries under the wheel's data directory "p-1.data", the compiled
\* files and the Python sources among the paths.
DataPaths == {"p-1.data/purelib/d.py", "p-1.data/scripts/tool"}
PycPaths == {"__pycache__/m.cpython-311.pyc"}
PyPaths == {"d.py", "m.py", "p-1.data/purelib/d.py"}

\* "install_paths[entry]" joined with the path below the category, for the
\* flat InstallPaths: purelib is the install root, scripts is its bin.
dest(src) ==
    CASE src = "p-1.data/purelib/d.py" -> "d.py"
      [] src = "p-1.data/scripts/tool" -> "bin/tool"

\* "scripts" == entry
in_scripts(src) == src = "p-1.data/scripts/tool"

\* os.path.join(install_paths.scripts, entry_point.name)
script_dst(name) ==
    CASE name = "tool" -> "bin/tool"
      [] name = "run" -> "bin/run"

\* pex.common.is_pyc_file
is_pyc_file(path) == path \in PycPaths

\* The members of a set of paths, as a sequence in ascending order.
ascending(paths) == SelectSeq(PathsAscending, LAMBDA path : path \in paths)

\* What the wheel holds for an entry: the data script's lines, the rows of
\* the manifest it ships, or one line the installer does not look into.
entry_content(name) ==
    IF name = "p-1.data/scripts/tool" THEN wheel.script
    ELSE IF name = relpath THEN << <<"m.py", <<>>, <<>>>> >>
    ELSE << <<name, "\n">> >>

\* Recorder.record_file without the is_pyc_file check.
recorded_with_pyc(path) == path # relpath

\* Recorder.record_file records the path unless it is a compiled file or
\* the manifest itself.
recorded(path) == ~is_pyc_file(path) /\ path # relpath

\* Recorder.record_file on the Recorder r = [files, copies], disk d.
record_file(r, d, path) ==
    IF recorded(path)
    THEN [r EXCEPT !.files = Append(@, InstalledFile_create(d, path))]
    ELSE r

\* Recorder.record_copy
record_copy(r, d, source, path) ==
    IF recorded(path)
    THEN [files |-> record_file(r, d, path).files,
          copies |-> Append(r.copies, <<source, path>>)]
    ELSE r

\* record_copy for each (source, destination) pair in turn.
RECURSIVE record_copies(_, _, _)
record_copies(r, d, pairs) ==
    IF pairs = <<>> THEN r
    ELSE record_copies(record_copy(r, d, Head(pairs)[1], Head(pairs)[2]),
                       d, Tail(pairs))

\* record_file for each path in turn.
RECURSIVE record_files(_, _, _)
record_files(r, d, paths) ==
    IF paths = <<>> THEN r
    ELSE record_files(record_file(r, d, Head(paths)), d, Tail(paths))

\* The Recorder of the call under way.
recorder == [files |-> installed_files, copies |-> copies]

----------------------------------------------------------------------------
(* install_wheel (src/pex/pep_427.py), for a .whl file and the flat         *)
(* InstallPaths                                                             *)

\* 1. Unpack: "zf.extractall(install_paths.extract_dir)", then every entry
\* under the data directory is set aside and every other one recorded.  The
\* entries are taken in ascending order of name.
Unpack ==
    /\ ipc = "unpack"
    /\ LET extracted == [path \in Paths |->
                           IF path \in wheel.names
                           THEN File(entry_content(path)) ELSE disk[path]]
           names == ascending(wheel.names \ DataPaths)
           r == record_copies(recorder, extracted,
                              [i \in DOMAIN names |-> <<names[i], names[i]>>])
       IN /\ disk' = extracted
          /\ installed_files' = r.files
          /\ copies' = r.copies
    /\ data_sources' = wheel.names \cap DataPaths
    /\ ipc' = "spread"
    /\ UNCHANGED wheelVars
    /\ UNCHANGED <<atomicVars, provVars, requested, read_back, exclude,
                   rec_pc, wheel, args, data_scripts, next_ep, warned, err>>

\* pex.common.iter_copytree: every file below the data directory is copied
\* to its destination.
iter_copytree(d, srcs) ==
    [path \in Paths |->
        IF \E src \in srcs : dest(src) = path
        THEN d[CHOOSE src \in srcs : dest(src) = path]
        ELSE d[path]]

\* The (source, destination) pairs of the entries, in ascending order.
src_to_dst(srcs) ==
    LET ordered == ascending(srcs)
    IN [i \in DOMAIN ordered |-> <<ordered[i], dest(ordered[i])>>]

\* 2. Spread: the categories in sorted order.  A file that does not need
\* processing is recorded as it is copied; the scripts that do are
\* processed and then recorded and noted in data_scripts; at last the data
\* directory is removed "if finalize".
Spread ==
    /\ ipc = "spread"
    /\ LET copied == iter_copytree(disk, data_sources)
           scripts == {src \in data_sources :
                         /\ in_scripts(src)
                         /\ needs_processing(copied[dest(src)].lines)}
           r1 == record_copies(recorder, copied,
                               src_to_dst(data_sources \ scripts))
           processed == [path \in Paths |->
                           IF \E src \in scripts : dest(src) = path
                           THEN File(process(copied[path].lines))
                           ELSE copied[path]]
           r2 == record_copies(r1, processed, src_to_dst(scripts))
       IN /\ disk' = [path \in Paths |->
                        IF args.finalize /\ path \in DataPaths
                        THEN NoFile ELSE processed[path]]
          /\ installed_files' = r2.files
          /\ copies' = r2.copies
          /\ data_scripts' = [dst \in {dest(src) : src \in scripts} |->
                                CHOOSE src \in scripts : dest(src) = dst]
    /\ ipc' = "compile"
    /\ UNCHANGED wheelVars
    /\ UNCHANGED <<atomicVars, provVars, requested, read_back, exclude,
                   rec_pc, wheel, args, data_sources, next_ep, warned, err>>

\* recorder.iter_python_files
py_files ==
    {installed_files[i].path : i \in DOMAIN installed_files} \cap PyPaths

\* "if compile:": compileall exits with 0 (ok) or not, having made the
\* compiled file or not; a failure is warned of; every .pyc file found under
\* commonpath(py_files), which is a directory only when there are several
\* files, is handed to record_file.
Compile(ok, made) ==
    /\ ipc = "compile"
    /\ IF args.compile /\ py_files # {}
       THEN /\ ok => made
            /\ LET compiled == [path \in Paths |->
                                  IF made /\ path \in PycPaths
                                  THEN File(<< <<"bytecode">> >>)
                                  ELSE disk[path]]
                   walked == IF Cardinality(py_files) > 1
                             THEN {path \in PycPaths : compiled[path].exists}
                             ELSE {}
                   r == record_files(recorder, compiled, ascending(walked))
               IN /\ disk' = compiled
                  /\ installed_files' = r.files
            /\ warned' = ~ok
       ELSE /\ ok /\ ~made
            /\ UNCHANGED <<disk, installed_files, warned>>
    /\ ipc' = "entry_points"
    /\ UNCHANGED wheelVars
    /\ UNCHANGED <<atomicVars, provVars, requested, read_back, exclude,
                   rec_pc, wheel, args, copies, data_sources, data_scripts,
                   next_ep, err>>

\* The launcher written for an entry point: the shebang line, then the
\* lines that import the module and call the function.
launcher(module, function) ==
    split_lines(create_shebang(target_python,
                               create_script_args(args.hermetic_scripts,
                                                  <<>>))
                \o <<"\n">>)
    \o << <<"import">> \o module \o <<"\n">>,
          <<"sys.exit">> \o module \o <<".">> \o function \o <<"\n">> >>

\* "if not qualname_separator" always false: no entry point is refused.
has_separator_unchecked(value) == TRUE

\* str(entry_point).partition(":")[1]
has_separator(value) == \E i \in DOMAIN value : value[i] = ":"

\* No script is ever found among the data scripts.
script_source_none(dst) == None

\* "script_source = data_scripts.get(script_dst)"
script_source(dst) ==
    IF dst \in DOMAIN data_scripts THEN Some(data_scripts[dst]) ELSE None

\* One turn of the loop over the console and GUI entry points: an entry
\* point without ':' raises WheelInstallError; one named as a script in
\* data_scripts is skipped; for any other the launcher is written and
\* recorded as a copy of entry_points.txt.
EntryPoint ==
    /\ ipc = "entry_points"
    /\ next_ep <= Len(wheel.entry_points)
    /\ LET entry_point == wheel.entry_points[next_ep]
           module == before_partition(entry_point.value, ":")
           function == after_partition(entry_point.value, ":")
           dst == script_dst(entry_point.name)
       IN IF ~has_separator(entry_point.value)
          THEN /\ err' = Some([type |-> "WheelInstallError",
                               name |-> entry_point.name,
                               wheel_path |-> "p-1.whl"])
               /\ ipc' = "raised"
               /\ UNCHANGED <<disk, installed_files, copies, next_ep>>
          ELSE IF script_source(dst) # None
          THEN /\ next_ep' = next_ep + 1
               /\ UNCHANGED <<disk, installed_files, copies, ipc, err>>
          ELSE LET written ==
                       [disk EXCEPT ![dst] = File(launcher(module, function))]
                   r == record_copy(recorder, written,
                                    "p-1.dist-info/entry_points.txt", dst)
               IN /\ disk' = written
                  /\ installed_files' = r.files
                  /\ copies' = r.copies
                  /\ next_ep' = next_ep + 1
                  /\ UNCHANGED <<ipc, err>>
    /\ UNCHANGED wheelVars
    /\ UNCHANGED <<atomicVars, provVars, requested, read_back, exclude,
                   rec_pc, wheel, args, data_sources, data_scripts, warned>>

\* The install finalizes whatever finalize says.
finalizes_always == TRUE

\* "if finalize:" as the last step of install_wheel.
finalizes == args.finalize

\* "if finalize:" the INSTALLER marker is written and recorded and the
\* Record written; "else:" the manifest on disk is deleted.
Finalize ==
    /\ ipc = "entry_points"
    /\ next_ep > Len(wheel.entry_points)
    /\ IF finalizes
       THEN LET marked == [disk EXCEPT !["p-1.dist-info/INSTALLER"] =
                                          File(<< <<"pex", "\n">> >>)]
                r == record_file(recorder, marked, "p-1.dist-info/INSTALLER")
            IN /\ disk' = disk_written(r.files, marked, args.requested)
               /\ installed_files' = r.files
               /\ requested' = args.requested
               /\ rec_pc' = "written"
       ELSE /\ disk' = [disk EXCEPT ![relpath] = NoFile]
            /\ UNCHANGED <<installed_files, requested, rec_pc>>
    /\ ipc' = "done"
    /\ UNCHANGED wheelVars
    /\ UNCHANGED <<atomicVars, provVars, read_back, exclude, wheel, args,
                   copies, data_sources, data_scripts, next_ep, warned, err>>

\* The scripts a wheel may hold in its scripts category: templates with
\* and without switches, and a script of another interpreter, each followed
\* by up to MaxBody lines.
FirstLines ==
    { <<"#!", "python", "\n">>,
      <<"#!", "pythonw", "\n">>,
      <<"#!", "python", " -", "i", "\n">>,
      <<"#!", "pythonw", " -", "E", "u", "\n">>,
      <<"#!", "/bin/sh", "\n">> }

Scripts ==
    {<<first>> \o body :
       first \in FirstLines,
       body \in UNION {[1 .. n -> {<<"text", "\n">>}] : n \in 0 .. MaxBody}}

\* The entry points of a wheel: up to two, of different names, the value
\* of "run" with or without the ':'.
EntryPoints ==
    { [name |-> "tool", value |-> <<"m", ":", "main">>],
      [name |-> "run", value |-> <<"m", ":", "main">>],
      [name |-> "run", value |-> <<"m">>] }

EntryPointSeqs ==
    {<<>>} \cup {<<e>> : e \in EntryPoints}
    \cup {<<e, f>> : e \in {x \in EntryPoints : x.name = "tool"},
                     f \in {x \in EntryPoints : x.name = "run"}}
    \cup {<<f, e>> : e \in {x \in EntryPoints : x.name = "tool"},
                     f \in {x \in EntryPoints : x.name = "run"}}

\* The entries a wheel may hold besides the module m.py.
OptionalNames ==
    {"__pycache__/m.cpython-311.pyc", relpath} \cup DataPaths

\* install_wheel is called with a wheel and its arguments on an empty
\* install root.
InstallInit ==
    /\ \E names \in SUBSET OptionalNames, script \in Scripts,
          entry_points \in EntryPointSeqs :
          /\ \/ "p-1.data/scripts/tool" \in names
             \/ script = << <<"#!", "python", "\n">> >>
          /\ wheel = [names |-> {"m.py"} \cup names
                                \cup (IF entry_points # <<>>
                                      THEN {"p-1.dist-info/entry_points.txt"}
                                      ELSE {}),
                      script |-> IF "p-1.data/scripts/tool" \in names
                                 THEN script ELSE <<>>,
                      entry_points |-> entry_points]
    /\ args \in {a \in [{"finalize", "requested", "compile",
                         "hermetic_scripts"} -> BOOLEAN] :
                   a.finalize \/ a.requested}
    /\ ipc = "unpack"
    /\ copies = <<>>
    /\ data_sources = {}
    /\ data_scripts = <<>>
    /\ next_ep = 1
    /\ warned = FALSE
    /\ err = None
    /\ RecordIdle /\ AtomicIdle /\ ProvIdle /\ WheelIdle

InstallNext ==
    \/ Unpack
    \/ Spread
    \/ \E ok \in BOOLEAN, made \in BOOLEAN : Compile(ok, made)
    \/ EntryPoint
    \/ Finalize

InstallSpec == InstallInit /\ [][InstallNext]_vars

----------------------------------------------------------------------------
(* InstalledWheel.load and maybe_load (src/pex/pep_427.py)                  *)

\* JSON values, tagged: null, a string, a number, a list, an object with
\* its members.  PyNone is what dict.get gives for a member that is not
\* there.
PyNone == <<"None">>
JNull == <<"null">>
JStr(text) == <<"str", text>>
JInt(n) == <<"int", n>>
JList == <<"list">>
JObject(members) == <<"object", members>>

\* json.load of the text of a file: ValueError for text that is no JSON
\* document, else the Python value, a JSON null being None.
json_load(text) ==
    IF text = <<"garbage">> THEN [raised |-> "ValueError"]
    ELSE [raised |-> "none",
          value |-> IF text = JNull THEN PyNone ELSE text]

\* isinstance(layout, dict)
is_dict(value) == value[1] = "object"

\* layout.get(key): a member that is absent reads as None, as does null.
get(layout, key) ==
    IF key \in DOMAIN layout[2] /\ layout[2][key] # JNull
    THEN layout[2][key] ELSE PyNone

\* layout.get(key, default)
get_default(layout, key, default) ==
    IF key \in DOMAIN layout[2]
    THEN (IF layout[2][key] = JNull THEN PyNone ELSE layout[2][key])
    ELSE default

\* Python's truth value of a JSON value.
truthy(value) == value \notin {PyNone, JStr(""), JInt(0)}

\* What InstalledWheel.load does on a sidecar: open fails with IOError
\* for a file that is absent or unreadable; json.load raises ValueError
\* for text that is not JSON; LoadError for a value that is no object or
\* that lacks stash_dir or record_relpath; else the InstalledWheel.
load_of(file) ==
    IF file.kind # "text" THEN [raised |-> "LoadError"]
    ELSE LET parsed == json_load(file.text)
         IN IF parsed.raised # "none" THEN [raised |-> parsed.raised]
            ELSE IF ~is_dict(parsed.value) THEN [raised |-> "LoadError"]
            ELSE LET layout == parsed.value
                     stash_dir == get(layout, "stash_dir")
                     record_relpath == get(layout, "record_relpath")
                 IN IF ~truthy(stash_dir) \/ ~truthy(record_relpath)
                    THEN [raised |-> "LoadError"]
                    ELSE [raised |-> "none",
                          value |->
                            Some([layout_version |->
                                    get_default(layout, "version", JInt(0)),
                                  stash_dir |-> stash_dir,
                                  record_relpath |-> record_relpath,
                                  fingerprint |-> get(layout, "fingerprint"),
                                  data_dir |-> get(layout, "data_dir"),
                                  size |-> get(layout, "size")])]

\* What InstalledWheel.maybe_load does: None for LoadError, and only for
\* LoadError.
maybe_load_of(file) ==
    LET loaded == load_of(file)
    IN IF loaded.raised = "LoadError"
       THEN [raised |-> "none", value |-> None]
       ELSE loaded

\* InstalledWheel.load(prefix_dir)
load ==
    /\ load_called = "none"
    /\ load_called' = "load"
    /\ load_result' = load_of(layout_file)
    /\ UNCHANGED <<layout_file, reinstallVars, constructVars>>
    /\ UNCHANGED <<atomicVars, provVars, recordVars, installVars>>
    /\ UNCHANGED saveVars

\* InstalledWheel.maybe_load(prefix_dir)
maybe_load ==
    /\ load_called = "none"
    /\ load_called' = "maybe_load"
    /\ load_result' = maybe_load_of(layout_file)
    /\ UNCHANGED <<layout_file, reinstallVars, constructVars>>
    /\ UNCHANGED <<atomicVars, provVars, recordVars, installVars>>
    /\ UNCHANGED saveVars

\* The values a sidecar may give stash_dir and record_relpath, and the
\* versions it may give.
StashDirs == {JNull, JStr(""), JStr(".stash")}
RecordRelpaths == {JNull, JStr(""), JStr(relpath)}
Versions == {JInt(0), JInt(1)}

\* The objects a sidecar may hold: any of the three members may be
\* absent.
LayoutObjects ==
    {JObject(members) :
       members \in
         UNION {[keys \cup {"fingerprint", "data_dir", "size"} ->
                   StashDirs \cup RecordRelpaths \cup Versions
                   \cup {JStr("f"), JStr("p-1.data"), JInt(12)}] :
                  keys \in SUBSET {"stash_dir", "record_relpath",
                                   "version"}}}

\* A well-formed member: each key has a value of its own kind.
WellTyped(members) ==
    /\ "stash_dir" \in DOMAIN members => members.stash_dir \in StashDirs
    /\ "record_relpath" \in DOMAIN members
         => members.record_relpath \in RecordRelpaths
    /\ "version" \in DOMAIN members => members.version \in Versions
    /\ members.fingerprint = JStr("f")
    /\ members.data_dir = JStr("p-1.data")
    /\ members.size = JInt(12)

\* The states of the sidecar: absent, unreadable, or a file whose text is
\* no JSON, a JSON value that is no object, or an object.
LayoutFiles ==
    {[kind |-> "absent"], [kind |-> "unreadable"]}
    \cup {[kind |-> "text", text |-> text] :
            text \in {<<"garbage">>, JNull, JStr("x"), JInt(7), JList}
                     \cup {o \in LayoutObjects : WellTyped(o[2])}}

LoadInit ==
    /\ WalkIdle
    /\ SaveIdle
    /\ layout_file \in LayoutFiles
    /\ load_called = "none"
    /\ load_result = [raised |-> "none"]
    /\ layout_version = 1
    /\ chroot = <<>>
    /\ method = "none"
    /\ gen_pc = "idle"
    /\ pending = <<>>
    /\ consumed = <<>>
    /\ given_relpath = None
    /\ record_made = None
    /\ construct_err = None
    /\ AtomicIdle /\ ProvIdle /\ RecordIdle /\ InstallIdle

LoadNext == load \/ maybe_load

LoadSpec == LoadInit /\ [][LoadNext]_vars

----------------------------------------------------------------------------
(* InstalledWheel.save (src/pex/pep_427.py)                                 *)

_VERSION == 1
_STASH_DIR == ".stash"

\* The files a prefix_dir may hold, and their sizes in bytes.
PrefixFiles == {"m.py", "d.py"}
file_size(path) == IF path = "m.py" THEN 7 ELSE 5

\* CacheHelper.dir_hash(prefix_dir, hasher=hashlib.sha256): a digest that
\* differs for directories that hold different files.
dir_hash(files) ==
    CASE files = {} -> "sha256:"
      [] files = {"m.py"} -> "sha256:m"
      [] files = {"d.py"} -> "sha256:d"
      [] OTHER -> "sha256:dm"

\* pex.common.dir_size(prefix_dir): the sizes of the files, summed.
RECURSIVE dir_size(_)
dir_size(files) ==
    IF files = {} THEN 0
    ELSE LET path == CHOOSE f \in files : TRUE
         IN file_size(path) + dir_size(files \ {path})

\* A Python value as the value tagged: None, a str or an int.
PyOpt(opt) == IF opt = {} THEN PyNone ELSE JStr(CHOOSE text \in opt : TRUE)

\* json.dump(layout, fp, sort_keys=True): None is written as null, a str
\* and an int as themselves.
json_dump(layout) ==
    JObject([key \in DOMAIN layout |->
               IF layout[key] = PyNone THEN JNull ELSE layout[key]])

\* The layout that save writes.
layout_saved(files, record_relpath, data_dir) ==
    [version |-> JInt(_VERSION),
     stash_dir |-> JStr(_STASH_DIR),
     record_relpath |-> JStr(record_relpath),
     fingerprint |-> JStr(dir_hash(files)),
     data_dir |-> PyOpt(data_dir),
     size |-> JInt(dir_size(files))]

\* The InstalledWheel that save returns: cls(...) is given no size, so
\* the attribute takes its default, None.
save_result(files, record_relpath, data_dir) ==
    [layout_version |-> JInt(_VERSION),
     stash_dir |-> JStr(_STASH_DIR),
     record_relpath |-> JStr(record_relpath),
     fingerprint |-> JStr(dir_hash(files)),
     data_dir |-> PyOpt(data_dir),
     size |-> PyNone]

\* InstalledWheel.save(prefix_dir, record_relpath, data_dir): a layout
\* file that is there is deleted, so the directory is hashed and sized
\* without it; the layout is written and the InstalledWheel returned.
save ==
    /\ saved = None
    /\ LET layout == layout_saved(prefix_files, save_args.record_relpath,
                                  save_args.data_dir)
       IN layout_file' = [kind |-> "text", text |-> json_dump(layout)]
    /\ saved' = Some(save_result(prefix_files, save_args.record_relpath,
                                 save_args.data_dir))
    /\ UNCHANGED <<load_called, load_result, reinstallVars, constructVars,
                   prefix_files, save_args>>
    /\ UNCHANGED <<atomicVars, provVars, recordVars, installVars>>

\* A prefix_dir with or without a layout file of an earlier save, and the
\* arguments of a save.
SaveInit ==
    /\ prefix_files \in SUBSET PrefixFiles
    /\ save_args \in [record_relpath : {relpath, "RECORD"},
                       data_dir : {None, Some("p-1.data")}]
    /\ saved = None
    /\ layout_file \in
         {[kind |-> "absent"],
          [kind |-> "text", text |-> <<"garbage">>],
          [kind |-> "text",
           text |-> json_dump(layout_saved({}, relpath, None))]}
    /\ load_called = "none"
    /\ load_result = [raised |-> "none"]
    /\ layout_version = 1
    /\ chroot = <<>>
    /\ method = "none"
    /\ gen_pc = "idle"
    /\ pending = <<>>
    /\ consumed = <<>>
    /\ given_relpath = None
    /\ record_made = None
    /\ construct_err = None
    /\ WalkIdle
    /\ AtomicIdle /\ ProvIdle /\ RecordIdle /\ InstallIdle

SaveNext == save \/ load \/ maybe_load

SaveSpec == SaveInit /\ [][SaveNext]_vars

----------------------------------------------------------------------------
(* InstalledWheel.reinstall_flat and reinstall_venv (src/pex/pep_427.py).   *)
(* Destinations are relative to the base the Record is written under:       *)
(* target_dir for reinstall_flat, site_packages_dir for reinstall_venv.     *)

\* The file a source of the installed wheel directory holds.
chroot_content(src) ==
    IF src = ".stash/bin/tool"
    THEN File(<< <<"#!", target_python, "\n">> >>)
    ELSE File(entry_content(src))

\* One file of the copy of a wheel directory into a target that starts
\* empty: the destination holds the content of the source.
place(d, pair) ==
    IF d[pair[2]].exists THEN d
    ELSE [d EXCEPT ![pair[2]] = chroot_content(pair[1])]

RECURSIVE place_all(_, _)
place_all(d, pairs) ==
    IF pairs = <<>> THEN d
    ELSE place_all(place(d, Head(pairs)), Tail(pairs))

\* The whole install is done when the first pair is asked for, whatever
\* the layout version.
installs_at_once_always(version) == TRUE

\* "if self.layout_version >= 1:" the wheel directory is installed with
\* install_wheel_flat or install_wheel_interpreter before any pair is
\* yielded.
installs_at_once(version) == version >= 1

\* exclude=(installed_wheel.stash_dir, LAYOUT_JSON_FILENAME)
not_stashed(pairs) ==
    SelectSeq(pairs, LAMBDA pair : pair[1] # ".stash/bin/tool")

\* reinstall_flat(target_dir): the iterator is made, no line of the body
\* has run.
reinstall_flat ==
    /\ gen_pc = "idle"
    /\ method' = "reinstall_flat"
    /\ gen_pc' = "created"
    /\ UNCHANGED <<constructVars, walkVars>>
    /\ UNCHANGED <<layout_file, load_called, load_result, layout_version,
                   chroot, pending, consumed>>
    /\ UNCHANGED <<atomicVars, provVars, recordVars, installVars>>
    /\ UNCHANGED saveVars

\* reinstall_venv(venv)
reinstall_venv ==
    /\ gen_pc = "idle"
    /\ method' = "reinstall_venv"
    /\ gen_pc' = "created"
    /\ UNCHANGED <<constructVars, walkVars>>
    /\ UNCHANGED <<layout_file, load_called, load_result, layout_version,
                   chroot, pending, consumed>>
    /\ UNCHANGED <<atomicVars, provVars, recordVars, installVars>>
    /\ UNCHANGED saveVars

\* A file that was in the target before the re-install.
OldFile == File(<< <<"old", "\n">> >>)

\* How a file-system call of a walk may go, besides finding its destination
\* in place: well, across devices (a link), or refused for another reason.
Outcomes == {"ok", "EXDEV", "EACCES"}

\* The walk that meets a source: _reinstall_stash walks the stash,
\* _reinstall_site_packages the rest of prefix_dir.
walk_of(src) == IF src = ".stash/bin/tool" THEN "stash" ELSE "site"

\* 'src_entry.endswith(".dist-info") and os.path.isdir(src_entry)'
is_dist_info_dir(src_entry) == src_entry = "p-1.dist-info"

\* _reinstall_site_packages: "if symlink and not (...)"; _reinstall_stash
\* has no such branch.
symlinked(src_entry) ==
    /\ walk_of(src_entry) = "site"
    /\ symlink
    /\ ~is_dist_info_dir(src_entry)

\* "if link and not os.path.islink(src)"
tries_link(src) == link[walk_of(src)] /\ src \notin islinks

\* The walk goes on linking after a cross-device failure.
link_after_any(errno) == TRUE

\* "if e.errno != errno.EXDEV: raise e" and then "link = False"
link_after(errno) == errno # "EXDEV"

\* No error is suppressed.
suppressed_never(errno) == FALSE

\* "except (IOError, OSError) as e: if e.errno != errno.EEXIST: raise e"
suppressed(errno) == errno = "EEXIST"

\* os.link(src, dst) and os.symlink(rel_src, dst): a destination that
\* exists is EEXIST.
create_result(d, dst, went) ==
    IF went = "EACCES" THEN "EACCES"
    ELSE IF d[dst].exists THEN "EEXIST"
    ELSE went

\* The body of the loop of a legacy walk for the file of a pair, on the
\* disk d, up to the handlers of the inner try: the disk it leaves, the
\* walk's link flag, how the file was placed (symlink, link, copy or none)
\* and the errno of the error raised to the outer handler, or none.
\* shutil.copy writes the destination whether it exists or not.
walk_file(d, pair, went) ==
    LET src == pair[1]
        dst == pair[2]
        put == [d EXCEPT ![dst] = chroot_content(src)]
        made == create_result(d, dst, went)
    IN IF symlinked(src)
       THEN [disk |-> IF made = "ok" THEN put ELSE d,
             link |-> link[walk_of(src)],
             tried_link |-> FALSE,
             how |-> IF made = "ok" THEN "symlink" ELSE "none",
             errno |-> IF made = "ok" THEN "none" ELSE made]
       ELSE IF tries_link(src)
       THEN [disk |-> IF made \in {"ok", "EXDEV"} THEN put ELSE d,
             link |-> link_after(made),
             tried_link |-> TRUE,
             how |-> CASE made = "ok" -> "link"
                       [] made = "EXDEV" -> "copy"
                       [] OTHER -> "none",
             errno |-> IF made \in {"ok", "EXDEV"} THEN "none" ELSE made]
       ELSE [disk |-> IF went = "ok" THEN put ELSE d,
             link |-> link[walk_of(src)],
             tried_link |-> FALSE,
             how |-> IF went = "ok" THEN "copy" ELSE "none",
             errno |-> IF went = "ok" THEN "none" ELSE went]

\* What a walk did with the file of a pair.
walked_file(d, pair, step) ==
    [src |-> pair[1], dst |-> pair[2], walk |-> walk_of(pair[1]),
     prior |-> d[pair[2]], tried_link |-> step.tried_link,
     how |-> step.how, errno |-> step.errno]

\* pex.common.safe_mkdir(directory): the directory is there afterwards, and
\* one that was there already is no error.
safe_mkdir(ds, directory) == ds \cup {directory}

\* _reinstall_site_packages meets the directories of prefix_dir before its
\* files: the metadata directory is made with safe_mkdir, and no pair is
\* yielded for it.
meets_dirs(pair) ==
    /\ walk_of(pair[1]) = "site"
    /\ \A i \in DOMAIN walk_log : walk_log[i].walk # "site"
    /\ \E i \in DOMAIN chroot : chroot[i][1] = relpath

walked_dirs(pair) ==
    IF meets_dirs(pair)
    THEN << [src |-> "p-1.dist-info", dst |-> "p-1.dist-info",
             walk |-> "site",
             prior |-> [exists |-> "p-1.dist-info" \in dirs, lines |-> <<>>],
             tried_link |-> FALSE,
             how |-> IF symlinked("p-1.dist-info")
                     THEN "symlink" ELSE "mkdir",
             errno |-> "none"] >>
    ELSE <<>>

\* The caller asks the iterator for a pair.  On layout version 1 the first
\* request installs the wheel directory with finalize and requested left
\* at True, and every request yields the next of recording.copies.  On
\* layout version 0 every request runs the walks up to their next yield:
\* one more file is placed, or found in place, or fails to be placed; the
\* pair is recorded with record_file, which reads the destination, and
\* yielded; an error other than EEXIST is raised to the caller, at once when
\* record_file finds no file to read, else when the walk is resumed.  The
\* request after the last file writes the Record.
next_pair(went) ==
    /\ gen_pc \in {"created", "suspended"}
    /\ IF installs_at_once(layout_version)
       THEN LET start == gen_pc = "created"
                pairs == not_stashed(chroot)
                copied == place_all(disk, pairs)
                r == record_copies([files |-> <<>>, copies |-> <<>>],
                                   copied, pairs)
                marked == [copied EXCEPT !["p-1.dist-info/INSTALLER"] =
                                           File(<< <<"pex", "\n">> >>)]
                rr == record_file(r, marked, "p-1.dist-info/INSTALLER")
                rest == IF start THEN rr.copies ELSE pending
            IN /\ went = "ok"
               /\ UNCHANGED <<dirs, link, walk_log, walk_err>>
               /\ IF start
                  THEN /\ disk' = disk_written(rr.files, marked, TRUE)
                       /\ installed_files' = rr.files
                       /\ requested' = TRUE
                       /\ rec_pc' = "written"
                  ELSE UNCHANGED <<disk, installed_files, requested, rec_pc>>
               /\ IF rest = <<>>
                  THEN /\ gen_pc' = "exhausted"
                       /\ pending' = <<>>
                       /\ UNCHANGED consumed
                  ELSE /\ gen_pc' = "suspended"
                       /\ pending' = Tail(rest)
                       /\ consumed' = Append(consumed, Head(rest))
       ELSE LET rest == IF gen_pc = "created" THEN chroot ELSE pending
            IN IF walk_err # None
               THEN /\ went = "ok"
                    /\ gen_pc' = "raised"
                    /\ UNCHANGED <<disk, installed_files, requested, rec_pc,
                                   pending, consumed, dirs, link, walk_log,
                                   walk_err>>
               ELSE IF rest = <<>>
               THEN /\ went = "ok"
                    /\ disk' = disk_written(installed_files, disk, TRUE)
                    /\ requested' = TRUE
                    /\ rec_pc' = "written"
                    /\ gen_pc' = "exhausted"
                    /\ pending' = <<>>
                    /\ UNCHANGED <<installed_files, consumed, dirs, link,
                                   walk_log, walk_err>>
               ELSE LET pair == Head(rest)
                        step == walk_file(disk, pair, went)
                        raised == /\ step.errno # "none"
                                  /\ ~suppressed(step.errno)
                    IN /\ went = "EXDEV" =>
                             tries_link(pair[1]) /\ ~symlinked(pair[1])
                       /\ disk' = step.disk
                       /\ link' = [link EXCEPT ![walk_of(pair[1])] = step.link]
                       /\ dirs' = IF meets_dirs(pair)
                                  THEN safe_mkdir(dirs, "p-1.dist-info")
                                  ELSE dirs
                       /\ walk_log' = walk_log \o walked_dirs(pair)
                                       \o <<walked_file(disk, pair, step)>>
                       /\ IF raised /\ ~step.disk[pair[2]].exists
                          THEN /\ gen_pc' = "raised"
                               /\ walk_err' = Some("ENOENT")
                               /\ UNCHANGED <<installed_files, pending,
                                              consumed>>
                          ELSE /\ installed_files' =
                                    record_file(recorder, step.disk,
                                                pair[2]).files
                               /\ gen_pc' = "suspended"
                               /\ pending' = Tail(rest)
                               /\ consumed' = Append(consumed, pair)
                               /\ walk_err' = IF raised THEN Some(step.errno)
                                              ELSE None
                       /\ UNCHANGED <<requested, rec_pc>>
    /\ UNCHANGED constructVars
    /\ UNCHANGED <<layout_file, load_called, load_result, layout_version,
                   chroot, method, symlink, islinks>>
    /\ UNCHANGED <<atomicVars, provVars, installVars, read_back, exclude>>
    /\ UNCHANGED saveVars

\* The caller drops the iterator before it is exhausted: the generator is
\* closed where it stands and nothing after its yield runs.
close ==
    /\ gen_pc \in {"created", "suspended"}
    /\ gen_pc' = "closed"
    /\ UNCHANGED <<constructVars, walkVars>>
    /\ UNCHANGED <<layout_file, load_called, load_result, layout_version,
                   chroot, method, pending, consumed>>
    /\ UNCHANGED <<atomicVars, provVars, recordVars, installVars>>
    /\ UNCHANGED saveVars

\* The sequences that list every member of a set once.
Orders(S) ==
    {order \in [1 .. Cardinality(S) -> S] :
       \A i, j \in DOMAIN order : order[i] = order[j] => i = j}

\* The installed wheel directories: a stashed script or none, met first,
\* then the modules at the top of prefix_dir in any order of listing, then
\* the manifest in the metadata directory.
Chroots ==
    {stash \o top \o meta :
       stash \in {<<>>, << <<".stash/bin/tool", "bin/tool">> >>},
       top \in UNION {Orders({<<path, path>> : path \in S}) :
                        S \in SUBSET {"m.py", "d.py"}},
       meta \in {<<>>, << <<relpath, relpath>> >>}}

\* The destinations of the pairs.
dsts(pairs) == {pairs[i][2] : i \in DOMAIN pairs}

\* A re-install of an installed wheel directory.  One of the legacy layout
\* may be asked to symlink, may hold a module that is a symbolic link, and
\* may find the script or a module in the target already.
ReinstallInit ==
    /\ layout_version \in 0 .. 1
    /\ chroot \in Chroots
    /\ method = "none"
    /\ gen_pc = "idle"
    /\ pending = <<>>
    /\ consumed = <<>>
    /\ symlink \in (IF layout_version = 0 THEN BOOLEAN ELSE {FALSE})
    /\ islinks \in (IF layout_version = 0
                    THEN SUBSET ({"d.py"} \cap dsts(chroot)) ELSE {{}})
    /\ dirs \in (IF layout_version = 0 /\ relpath \in dsts(chroot)
                 THEN SUBSET {"p-1.dist-info"} ELSE {{}})
    /\ link = [w \in {"stash", "site"} |-> TRUE]
    /\ walk_log = <<>>
    /\ walk_err = None
    /\ \E old \in SUBSET ({"bin/tool", "m.py"} \cap dsts(chroot)) :
          /\ layout_version = 1 => old = {}
          /\ disk = [path \in Paths |->
                       IF path \in old THEN OldFile ELSE NoFile]
    /\ installed_files = <<>>
    /\ requested = FALSE
    /\ read_back = <<>>
    /\ exclude = {}
    /\ rec_pc = "new"
    /\ layout_file = [kind |-> "absent"]
    /\ load_called = "none"
    /\ load_result = [raised |-> "none"]
    /\ given_relpath = None
    /\ record_made = None
    /\ construct_err = None
    /\ AtomicIdle /\ ProvIdle /\ InstallIdle /\ SaveIdle

ReinstallNext ==
    \/ reinstall_flat
    \/ reinstall_venv
    \/ \E went \in Outcomes : next_pair(went)
    \/ close

ReinstallSpec == ReinstallInit /\ [][ReinstallNext]_vars

----------------------------------------------------------------------------
(* The construction of a Record (src/pex/pep_376.py).  A relative path is   *)
(* the sequence of its components, a component the sequence of its stem    *)
(* and suffixes.                                                            *)

\* "/".join(components), as one run of tokens.
RECURSIVE joined(_)
joined(components) ==
    IF components = <<>> THEN <<>>
    ELSE IF Len(components) = 1 THEN components[1]
    ELSE components[1] \o <<"/">> \o joined(Tail(components))

\* os.path.dirname(value): all but the last component.
dirname(value) ==
    IF value = <<>> THEN <<>> ELSE joined(SubSeq(value, 1, Len(value) - 1))

\* text.endswith(suffix), for a suffix of one token
endswith(text, suffix) == text # <<>> /\ text[Len(text)] = suffix

\* A validator that accepts every relpath.
relpath_validator_off(value) == TRUE

\* Record._relpath_validator: the value passes, or ValueError is raised.
relpath_validator(value) == endswith(dirname(value), ".dist-info")

\* Record(base, relpath, installed_files): attrs runs the validator in
\* __init__, and no Record is made when it raises.
construct(by, value, files) ==
    /\ given_relpath' = Some([by |-> by, relpath |-> value])
    /\ IF relpath_validator(value)
       THEN /\ record_made' = Some([relpath |-> value,
                                    installed_files |-> files])
            /\ construct_err' = None
       ELSE /\ record_made' = None
            /\ construct_err' = Some("ValueError")
    /\ UNCHANGED <<layout_file, load_called, load_result, reinstallVars>>
    /\ UNCHANGED <<atomicVars, provVars, recordVars, installVars>>
    /\ UNCHANGED saveVars

\* The relative paths a Record may be given: in a metadata directory at
\* the top or below, beside one, below one, in a directory whose name
\* only holds the suffix, and with no directory.
Relpaths ==
    { << <<"p-1", ".dist-info">>, <<"RECORD">> >>,
      << <<"lib">>, <<"p-1", ".dist-info">>, <<"RECORD">> >>,
      << <<".dist-info">>, <<"RECORD">> >>,
      << <<"p-1", ".dist-info", ".bak">>, <<"RECORD">> >>,
      << <<"p-1", ".dist-info">>, <<"sub">>, <<"RECORD">> >>,
      << <<"p-1", ".data">>, <<"RECORD">> >>,
      << <<"RECORD">> >>,
      << <<"p-1", ".dist-info">> >> }

\* Record(...) called by a client.
Record ==
    /\ given_relpath = None
    /\ \E value \in Relpaths :
          construct("Record", value, installed_files)

\* Recorder.get_recording of a Recorder made with record_relpath and
\* holding installed_files: the Record is constructed with them.
get_recording ==
    /\ given_relpath = None
    /\ \E record_relpath \in Relpaths :
          construct("get_recording", record_relpath, installed_files)

ConstructInit ==
    /\ installed_files \in
         UNION {[1 .. n -> InstalledFiles] : n \in 0 .. MaxFiles}
    /\ disk = [path \in Paths |-> NoFile]
    /\ requested = FALSE
    /\ read_back = <<>>
    /\ exclude = {}
    /\ rec_pc = "new"
    /\ AtomicIdle /\ ProvIdle /\ InstallIdle /\ WheelIdle

ConstructNext == Record \/ get_recording

ConstructSpec == ConstructInit /\ [][ConstructNext]_vars

----------------------------------------------------------------------------
(* Properties                                                               *)

AllDone == \A c \in Callers : pc[c] = "done"

\* No call has raised so far.
NoFault == \A c \in Callers : exc[c] = "none"

Populators == {c \in Callers : ran[c]}

\* The callers between the creation of work_dir and the release of the lock.
InCritical ==
    {c \in Callers :
       pc[c] \in {"block", "fin_check", "rename", "fin_cleanup", "release"}}

C2_TargetIsOneCompletePopulation ==
    target.exists => \E c \in Callers : target.files = Complete(c)

\* C3 as stated, for callers that are processes or threads alike: at most
\* one caller at a time is between the creation of work_dir and the release
\* of the lock, and a caller waiting for the lock stays in the lock call
\* for as long as another caller holds the lock.
C3_AnyCallers ==
    [][/\ locked' => Cardinality(InCritical') <= 1
       /\ \A c \in Callers :
            (pc[c] = "lock" /\ holder \notin {NoCaller, c}) => pc'[c] = "lock"
      ]_vars

\* C3, amended: the same, for callers that are separate processes, or
\* threads of one process that pass the BSD lock style.
C3_PopulationIsSerialized ==
    [][OwnLockOwners =>
         /\ locked' => Cardinality(InCritical') <= 1
         /\ \A c \in Callers :
              (pc[c] = "lock" /\ holder \notin {NoCaller, c})
              => pc'[c] = "lock"
      ]_vars

\* One process populates while another waits in the lock call.
C3_Witness ==
    /\ OwnLockOwners /\ ~threads
    /\ \E c, d \in Callers :
          c # d /\ c \in InCritical /\ holder = c /\ pc[d] = "lock"

\* C4: the block of the only caller to have entered atomic_directory
\* raised, target_dir did not exist before: once the call has returned,
\* target_dir does not exist, work_dir does not exist, no rename was
\* attempted and the block's exception is the one that reaches the caller.
C4_BlockRaiseLeavesNothing ==
    \A c \in Callers :
        (/\ pc[c] = "done" /\ blockRaised[c]
         /\ \A d \in Callers \ {c} : pc[d] = "start")
        => /\ ~target.exists
           /\ ~work[work_dir(c)].exists
           /\ finRes[c] = "none"
           /\ exc[c] = "BlockError"

\* C5: a call that acquired the lock has released it when it returns,
\* whatever the exit path, and leaves no work_dir behind (no other call
\* being under way that could have made one).
C5_LockReleasedOnEveryExit ==
    \A c \in Callers :
        (pc[c] = "done" /\ fd[c] # "none")
        => /\ fd[c] = "closed"
           /\ holder # c
           /\ (\A d \in Callers \ {c} : pc[d] \in {"start", "done"})
                => ~work[work_dir(c)].exists

\* C6: a call that starts once target_dir has been published is handed the
\* finalized slot by the first check: it returns without opening the
\* lockfile, taking the lock or making work_dir, and of the publishing call
\* and this one only the publishing call ran its block.
C6_SecondCallShortCircuits ==
    [][\A c \in Callers :
         (locked /\ pc[c] = "start" /\ is_finalized /\ pc'[c] # "start")
         => /\ pc'[c] = "done" /\ fast'[c]
            /\ fd'[c] = "none" /\ holder' = holder /\ holder # c
            /\ lockfile' = lockfile /\ work' = work /\ target' = target
            /\ publisher \in Callers \ {c}
            /\ ran'[publisher] /\ ~ran'[c]
      ]_vars

\* A call has returned from the first check after another call published.
C6_Witness ==
    \E c \in Callers :
        /\ fast[c] /\ pc[c] = "done"
        /\ publisher \in Callers \ {c} /\ pc[publisher] = "done"

\* C7: when the callers use AtomicDirectory without the lock, populate and
\* call finalize, and no call raises, then once every finalize has returned
\* target_dir holds the complete contents of exactly one work_dir and every
\* work_dir has been removed.
C7_UnlockedRaceLeavesOneWinner ==
    (~locked /\ AllDone /\ NoFault) =>
        /\ \E c \in Callers : target = Dir(Complete(c))
        /\ \A c \in Callers : ~work[work_dir(c)].exists

\* C8: finalize called while target_dir exists leaves target_dir unchanged
\* and has removed work_dir when it returns.
C8_FinalizeOnExistingTarget ==
    [][\A c \in Callers :
         (pc[c] = "fin_check" /\ is_finalized /\ pc'[c] = AfterFinalize)
         => /\ target' = target
            /\ ~work'[work_dir(c)].exists
      ]_vars

\* C9: a rename that fails with EEXIST or ENOTEMPTY leaves target_dir
\* unchanged and raises nothing out of finalize; a rename that fails with
\* any other error raises OSError out of finalize; either way work_dir has
\* been removed when finalize exits.
C9_RenameErrors ==
    [][\A c \in Callers :
         /\ (pc[c] = "rename" /\ pc'[c] = "fin_cleanup"
               /\ finRes'[c] \in {"EEXIST", "ENOTEMPTY"})
            => (target' = target /\ exc'[c] = "none")
         /\ (pc[c] = "rename" /\ pc'[c] = "fin_cleanup"
               /\ finRes'[c] \notin {"ok", "EEXIST", "ENOTEMPTY"})
            => exc'[c] = "OSError"
         /\ (pc[c] = "fin_cleanup" /\ pc'[c] = AfterFinalize)
            => /\ ~work'[work_dir(c)].exists
               /\ exc'[c] = IF finRes[c] \in {"ok", "EEXIST", "ENOTEMPTY"}
                            THEN "none" ELSE "OSError"
      ]_vars

\* One finalize has published and another has lost the race on the rename:
\* it returned normally and its work_dir is gone.
C9_Witness ==
    \E a, b \in Callers :
        /\ finRes[a] = "ok" /\ pc[a] = "done"
        /\ finRes[b] \in {"EEXIST", "ENOTEMPTY"} /\ pc[b] = "done"
        /\ exc[b] = "none" /\ ~work[work_dir(b)].exists

\* C10: once release has been called the descriptor is closed, also when
\* the unlock call raised, and then the unlock error is the exception that
\* leaves the call.
C10_ReleaseClosesDescriptor ==
    \A c \in Callers :
        /\ (pc[c] = "final_cleanup" \/ unlockFailed[c]) => fd[c] = "closed"
        /\ unlockFailed[c] => (exc[c] = "UnlockError" /\ pc[c] = "done")

\* An unlock call has raised and the descriptor is closed.
C10_Witness ==
    \E c \in Callers :
        unlockFailed[c] /\ fd[c] = "closed" /\ exc[c] = "UnlockError"

\* C11: no operation of atomic_directory or FileLock deletes the lockfile:
\* once created it exists in every later state, whatever the outcome of the
\* guarded block, and the file an open lock descriptor refers to is the
\* lockfile that exists, so the callers for the target lock the same file.
C11_LockfileIsNeverDeleted ==
    [][/\ lockfile => lockfile'
       /\ \A c \in Callers : fd'[c] = "open" => lockfile'
      ]_vars

\* Every call has returned, one after its block raised and one that lost
\* the race or failed, and the lockfile is still there.
C11_Witness ==
    /\ lockfile /\ AllDone
    /\ \E c, d \in Callers :
          /\ c # d /\ blockRaised[c] /\ fd[c] = "closed"
          /\ fd[d] = "closed"

\* Some destination has two recorded sources that yield different bytes.
DifferingSources ==
    \E dst \in Dsts :
       \E i, j \in DOMAIN provenance[dst] :
          source_content(provenance[dst][i])
             # source_content(provenance[dst][j])

\* C12: check_collisions raises exactly when collisions_ok is false and
\* some destination has two or more recorded sources whose contents are not
\* all equal; a destination with one source, or with several sources of
\* identical content, never causes an error, and with collisions_ok true
\* the call never raises and warns instead.
C12_RaisesExactlyOnDifferingContent ==
    outcome # "none" =>
        /\ outcome = "raised" <=> (~collisions_ok /\ DifferingSources)
        /\ outcome = "warned" <=> (collisions_ok /\ DifferingSources)

\* check_collisions has raised while one destination has two sources of
\* identical content and another has two sources that differ: only the
\* latter is in the message.
C12_Witness ==
    /\ outcome = "raised"
    /\ \E d, e \in Dsts :
          /\ d # e
          /\ Len(provenance[d]) = 2 /\ provenance[d][1] # provenance[d][2]
          /\ source_content(provenance[d][1])
                = source_content(provenance[d][2])
          /\ DOMAIN message = {e}

\* How many times x occurs in the sequence s.
Count(s, x) == Cardinality({i \in DOMAIN s : s[i] = x})

\* The paths of the sequence s, which holds InstalledFiles or rows, ascend.
Ascending(s, path_of(_)) ==
    \A i, j \in DOMAIN s : i < j => rank(path_of(s[i])) <= rank(path_of(s[j]))

\* The InstalledFile of the REQUESTED marker Record.write creates, and the
\* one of the manifest itself.
RequestedFile == InstalledFile(requested_path, Some(Hash_create(<<>>)), Some(0))
SelfFile == InstalledFile(relpath, None, None)

\* C13: Record.read of what Record.write wrote yields the (path, hash,
\* size) tuples the Record was made of, each as often as it was given,
\* together with the REQUESTED tuple (when requested) and the manifest's own
\* tuple, and nothing else, in ascending order of path.
C13_ReadOfWriteRoundTrips ==
    (rec_pc = "read" /\ exclude = {}) =>
        /\ \A f \in InstalledFiles \cup {RequestedFile, SelfFile} :
              Count(read_back, f)
                 = Count(installed_files, f)
                   + (IF requested /\ f = RequestedFile THEN 1 ELSE 0)
                   + (IF f = SelfFile THEN 1 ELSE 0)
        /\ Len(read_back)
              = Len(installed_files) + (IF requested THEN 2 ELSE 1)
        /\ Ascending(read_back, LAMBDA f : f.path)

\* A Record of two files, one without hash and of size 0 and one with a
\* two-digit size, given in descending order of path, was written with
\* the REQUESTED marker and read back.
C13_Witness ==
    /\ rec_pc = "read" /\ exclude = {} /\ requested
    /\ Len(installed_files) = 2
    /\ rank(installed_files[1].path) > rank(relpath)
    /\ rank(installed_files[2].path) < rank(relpath)
    /\ installed_files[1].hash = None /\ installed_files[1].size = Some(0)
    /\ installed_files[2].size = Some(12)
    /\ Len(read_back) = 4

\* C14: Record.write writes one row for every installed file it was given,
\* a REQUESTED row (and the empty REQUESTED file) exactly when requested is
\* true, and exactly one row for the manifest itself, whose hash and size
\* are empty; the rows are in ascending order of path.
C14_WriteRows ==
    rec_pc = "written" =>
        LET rows == disk[relpath].lines
        IN /\ disk[relpath].exists
           /\ \A path \in Paths :
                 Cardinality({i \in DOMAIN rows : rows[i][1] = path})
                    = Cardinality({i \in DOMAIN installed_files :
                                     installed_files[i].path = path})
                      + (IF requested /\ path = requested_path THEN 1 ELSE 0)
                      + (IF path = relpath THEN 1 ELSE 0)
           /\ \A f \in InstalledFiles :
                 Count(rows, writerow(f)) = Count(installed_files, f)
           /\ \A i \in DOMAIN rows :
                 rows[i][1] = relpath => rows[i][2] = <<>> /\ rows[i][3] = <<>>
           /\ requested => disk[requested_path] = File(<<>>)
           /\ Ascending(rows, LAMBDA row : row[1])

\* A Record of two files of one path and one of a path after the
\* manifest's was written without the REQUESTED marker.
C14_Witness ==
    /\ rec_pc = "written" /\ ~requested
    /\ ~disk[requested_path].exists
    /\ Len(disk[relpath].lines) = 3
    /\ installed_files[1].path = "p-1.dist-info/entry_points.txt"
    /\ installed_files[2].path = "m.py"

\* The data script of the wheel, where spread puts it, and whether it is a
\* template.
ScriptSrc == "p-1.data/scripts/tool"
ScriptDst == "bin/tool"
HasScript == ScriptSrc \in wheel.names
IsTemplate == HasScript /\ needs_processing(wheel.script)

\* The rows of the manifest on disk that name the path.
RowsOf(path) ==
    {i \in DOMAIN disk[relpath].lines : disk[relpath].lines[i][1] = path}

\* C15: after install_wheel with finalize=True has returned, the manifest
\* has exactly one row for every file the install placed (a compiled file
\* is none of them), a REQUESTED row exactly when requested, and one row
\* for itself; no path has two rows and every row names a file that
\* exists under the install root.
C15_ManifestListsPlacedFiles ==
    (ipc = "done" /\ args.finalize) =>
        /\ disk[relpath].exists
        /\ \A path \in Paths \ {relpath, requested_path} :
              Cardinality(RowsOf(path))
                 = IF disk[path].exists /\ path \notin PycPaths
                   THEN 1 ELSE 0
        /\ Cardinality(RowsOf(requested_path))
              = IF args.requested THEN 1 ELSE 0
        /\ args.requested => disk[requested_path].exists
        /\ Cardinality(RowsOf(relpath)) = 1

C17_NoLauncherOverDataScript ==
    \A i \in DOMAIN wheel.entry_points :
       (/\ i < next_ep
        /\ HasScript
        /\ script_dst(wheel.entry_points[i].name) = ScriptDst)
       => disk[ScriptDst].lines
            = IF IsTemplate THEN process(wheel.script) ELSE wheel.script

\* The tokens of a run of lines, one after the other.
RECURSIVE Flatten(_)
Flatten(lines) ==
    IF lines = <<>> THEN <<>> ELSE Head(lines) \o Flatten(Tail(lines))

\* The spread has taken place.
Spreaded == ipc \notin {"idle", "unpack", "spread"}

\* The switch letters of the template's first line.
OriginalSwitches ==
    SelectSeq(after_partition(wheel.script[1], " -"),
              LAMBDA t : t \in Letters)

\* The switch letters the rewritten first line is to carry: the original
\* ones, after s and E when hermetic_scripts is on.
ExpectedSwitches ==
    IF args.hermetic_scripts
    THEN <<"s", "E">>
         \o SelectSeq(OriginalSwitches, LAMBDA t : t \notin {"s", "E"})
    ELSE OriginalSwitches

\* What the rewrite put in the place of the template's first line: all of
\* the placed script but the lines that followed the first in the original.
FirstLineWritten ==
    LET placed == disk[ScriptDst].lines
        kept == Len(wheel.script) - 1
    IN Flatten(SubSeq(placed, 1, Len(placed) - kept))

\* C18: what a template's first line is rewritten to is "#!", the target
\* interpreter, then nothing when there is no original switch and
\* hermetic_scripts is off and else " -" with exactly the expected switch
\* letters, then the line terminator, and no other character.
C18_RewrittenShebang ==
    (Spreaded /\ IsTemplate) =>
        FirstLineWritten
          = <<"#!", target_python>>
            \o (IF ExpectedSwitches = <<>> THEN <<>>
                ELSE <<" ", "-">> \o ExpectedSwitches)
            \o <<"\n">>

\* C19: right after the spread a rewritten template has as many lines as
\* the original and every line after the first is the original's; a script
\* that is not a template is the original.
C19_OnlyFirstLineRewritten ==
    (ipc = "compile" /\ HasScript) =>
        IF IsTemplate
        THEN /\ Len(disk[ScriptDst].lines) = Len(wheel.script)
             /\ Tail(disk[ScriptDst].lines) = Tail(wheel.script)
        ELSE disk[ScriptDst].lines = wheel.script

\* C20: no install goes past an entry point whose value lacks the ':';
\* the install that meets one has raised WheelInstallError naming the
\* wheel and that entry point, has written no launcher for it, and has
\* written neither the INSTALLER marker nor a manifest: the manifest on
\* disk is absent or the one the wheel shipped.
C20_MalformedEntryPointRaises ==
    /\ \A i \in DOMAIN wheel.entry_points :
          i < next_ep => \E k \in DOMAIN wheel.entry_points[i].value :
                           wheel.entry_points[i].value[k] = ":"
    /\ ipc = "raised" =>
          LET entry_point == wheel.entry_points[next_ep]
          IN /\ \A k \in DOMAIN entry_point.value :
                   entry_point.value[k] # ":"
             /\ err = Some([type |-> "WheelInstallError",
                            name |-> entry_point.name,
                            wheel_path |-> "p-1.whl"])
             /\ ~disk[script_dst(entry_point.name)].exists
             /\ rec_pc = "new"
             /\ ~disk["p-1.dist-info/INSTALLER"].exists
             /\ disk[relpath] = IF relpath \in wheel.names
                                THEN File(entry_content(relpath))
                                ELSE NoFile
    /\ ipc # "raised" => err = None

\* An install has written the launcher of a first, well-formed entry point
\* and raised at the second, which lacks the ':'.
C20_Witness ==
    /\ ipc = "raised"
    /\ next_ep = 2
    /\ args.finalize
    /\ disk["bin/tool"].exists
    /\ ~disk["bin/run"].exists
\* C21: once install_wheel with finalize off has returned there is no
\* manifest at the manifest path, shipped by the wheel or not, and neither
\* the INSTALLER marker nor the REQUESTED marker has been written.
C21_NoManifestWithoutFinalize ==
    (ipc = "done" /\ ~args.finalize) =>
        /\ ~disk[relpath].exists
        /\ ~disk["p-1.dist-info/INSTALLER"].exists
        /\ ~disk[requested_path].exists
        /\ rec_pc = "new"

\* An install with finalize off of a wheel that ships a manifest has
\* returned, having recorded files and having been asked for the REQUESTED
\* marker.
C21_Witness ==
    /\ ipc = "done" /\ ~args.finalize /\ args.requested
    /\ relpath \in wheel.names
    /\ installed_files # <<>>
\* The sidecar is in one of the states of the claim: absent, unreadable,
\* no JSON, a JSON value that is no object, or an object whose stash_dir or
\* record_relpath is missing or empty.
BadSidecar ==
    \/ layout_file.kind # "text"
    \/ layout_file.text[1] # "object"
    \/ \E key \in {"stash_dir", "record_relpath"} :
          \/ key \notin DOMAIN layout_file.text[2]
          \/ layout_file.text[2][key] \in {JNull, JStr("")}

\* C22: on such a sidecar load raises LoadError and nothing else, and
\* maybe_load returns None.
C22_BadSidecarIsLoadError ==
    BadSidecar =>
        /\ load_called = "load" => load_result = [raised |-> "LoadError"]
        /\ load_called = "maybe_load"
             => load_result = [raised |-> "none", value |-> None]
\* Nothing is at the target and no Record has been written.
TargetUntouched ==
    /\ \A path \in Paths : disk[path].exists => disk[path] = OldFile
    /\ installed_files = <<>>
    /\ rec_pc = "new"

\* C23 as stated, for both layout versions: nothing is placed before the
\* caller starts iterating, the Record is written only once the caller
\* has been given every pair, and an iterator dropped with pairs still to
\* come leaves no written Record.
C23_LazyOnBothLayouts ==
    /\ gen_pc \in {"idle", "created"} => TargetUntouched
    /\ rec_pc = "written" => pending = <<>>
    /\ (gen_pc = "closed" /\ pending # <<>>) => rec_pc = "new"

\* C23, amended: nothing is placed before the caller starts iterating; on
\* layout version 0 the Record is written only once the caller has been
\* given every pair and the iterator is exhausted, and an iterator dropped
\* before that leaves no written Record; on layout version 1 the whole
\* install, the Record included, is done by the time the first pair is
\* handed over.
C23_LazyOnLegacyLayout ==
    /\ gen_pc \in {"idle", "created"} => TargetUntouched
    /\ layout_version = 0 =>
          /\ rec_pc = "written" =>
                gen_pc = "exhausted" /\ consumed = chroot
          /\ gen_pc = "closed" => rec_pc = "new"
          /\ \A path \in Paths \ {relpath, requested_path} :
                disk[path].exists <=>
                   \/ \E i \in DOMAIN consumed : consumed[i][2] = path
                   \/ disk[path] = OldFile
    /\ (layout_version = 1 /\ gen_pc \in {"suspended", "exhausted"}) =>
          /\ rec_pc = "written"
          /\ \A i \in DOMAIN chroot :
                chroot[i][1] # ".stash/bin/tool"
                   => disk[chroot[i][2]].exists

\* A legacy re-install of a directory with a stashed script and a module
\* has been drained: both pairs handed over, then the Record written.
C23_Witness ==
    /\ layout_version = 0
    /\ gen_pc = "exhausted"
    /\ rec_pc = "written"
    /\ Len(consumed) >= 2
    /\ disk["bin/tool"].exists
\* The name of the parent directory of a relative path ends with
\* ".dist-info".
SuffixInvariant(value) ==
    /\ Len(value) >= 2
    /\ LET parent == value[Len(value) - 1]
       IN parent[Len(parent)] = ".dist-info"

\* C24: the construction of a Record with a relpath whose parent directory
\* name lacks the suffix raises ValueError and makes no Record, and every
\* Record made, by a client or by a Recorder, has the suffix.
C24_RecordRelpathSuffix ==
    /\ \A made \in record_made : SuffixInvariant(made.relpath)
    /\ \A given \in given_relpath :
          IF SuffixInvariant(given.relpath)
          THEN record_made # None /\ construct_err = None
          ELSE record_made = None /\ construct_err = Some("ValueError")

\* A construction with a relpath below a metadata directory, but not in
\* it, has raised.
C24_Witness ==
    /\ given_relpath
         = Some([by |-> "get_recording",
                 relpath |-> << <<"p-1", ".dist-info">>, <<"sub">>,
                                <<"RECORD">> >>])
    /\ construct_err = Some("ValueError")
    /\ installed_files # <<>>

\* Caller c holds the lock, of a kind that keeps the callers apart, and is
\* in its block.
Populating(c) ==
    /\ locked
    /\ OwnLockOwners
    /\ holder = c
    /\ pc[c] = "block"

\* C25: while a caller holds the lock and populates work_dir, a step of
\* another caller neither removes work_dir nor takes a file out of it.
C25_WorkDirKeptForHolder ==
    [][\A c \in Callers :
          (Populating(c) /\ pc'[c] = pc[c] /\ nwritten'[c] = nwritten[c])
             => /\ work'[work_dir(c)].exists
                /\ work[work_dir(c)].files \subseteq work'[work_dir(c)].files
      ]_vars

\* C26: a caller whose second check, made with the lock held, finds
\* target_dir is yielded a finalized slot; its call makes no work_dir,
\* populates nothing, attempts no rename, and ends with the lock released
\* and the descriptor closed.
C26_LostRaceYieldsFinalizedSlot ==
    [][\A c \in Callers :
          /\ (pc[c] = "recheck" /\ is_finalized /\ pc'[c] # pc[c])
                => /\ pc'[c] = "release_lost"
                   /\ UNCHANGED <<work, target, ran, nwritten, finRes>>
          /\ pc[c] = "release_lost"
                => /\ is_finalized
                   /\ ~ran[c]
                   /\ nwritten[c] = 0
                   /\ finRes[c] = "none"
          /\ (pc[c] = "release_lost" /\ pc'[c] # pc[c])
                => /\ pc'[c] = "done"
                   /\ fd'[c] = "closed"
                   /\ holder' # c
                   /\ UNCHANGED <<work, target, ran, nwritten, finRes>>
      ]_vars

\* A caller has lost the race to another caller's rename and returned.
C26_Witness ==
    \E c \in Callers :
       /\ pc[c] = "done"
       /\ ~fast[c]
       /\ ~ran[c]
       /\ fd[c] = "closed"
       /\ exc[c] = "none"
       /\ publisher \in Callers \ {c}
       /\ target = Dir(Complete(publisher))

\* C27: a lock holder whose os.makedirs(work_dir) finds work_dir present
\* is yielded a work_dir that exists and is empty, and no exception leaves
\* atomic_directory.
C27_ExistingWorkDirIsRecreated ==
    [][\A c \in Callers :
          (/\ locked
           /\ pc[c] = "mkwork"
           /\ work[work_dir(c)].exists
           /\ pc'[c] # pc[c])
             => /\ pc'[c] = "block"
                /\ work'[work_dir(c)] = Dir({})
                /\ exc'[c] = "none"
      ]_vars

\* Caller c's call has constructed its slot.
Constructed(c) == pc[c] # "start"

\* Two paths name different entries of one directory.
Sibling(p, q) ==
    /\ Len(p) = Len(q)
    /\ SubSeq(p, 1, Len(p) - 1) = SubSeq(q, 1, Len(q) - 1)
    /\ p[Len(p)] # q[Len(q)]

C29_FlockExactlyWhenAskedFor ==
    \A c \in Callers :
       (~windows /\ locked /\ holder = c) =>
          /\ lock_api \in {"flock", "lockf"}
          /\ lock_api = "flock" <=>
                \/ lock_style = "bsd"
                \/ lock_style = "none" /\ environ = "bsd"

\* C30: on Windows a call of lock.acquire ends with the lock held by the
\* caller and without an exception.
C30_WindowsLockIsAcquired ==
    [][\A c \in Callers :
          (windows /\ pc[c] = "lock" /\ pc'[c] # pc[c])
             => /\ holder' = c
                /\ exc'[c] = "none"
      ]_vars

\* The sources recorded for a destination that has two or more sources.
SourcesOfShared ==
    UNION {{provenance[dst][i] : i \in DOMAIN provenance[dst]} :
             dst \in {d \in Dsts : Len(provenance[d]) > 1}}

\* The sequence s starts with the sequence r.
StartsWith(s, r) == Len(r) <= Len(s) /\ SubSeq(s, 1, Len(r)) = r

\* C31: record opens no source; check_collisions opens only sources
\* recorded for a destination that has two or more sources; and a step of
\* either leaves the sources recorded for every destination in place and in
\* order.
C31_OnlySharedSourcesAreOpened ==
    [][/\ provenance' # provenance => opened' = opened
       /\ opened' # opened => provenance' = provenance
       /\ opened' \subseteq SourcesOfShared'
       /\ \A dst \in Dsts : StartsWith(provenance'[dst], provenance[dst])
      ]_vars

\* check_collisions has read the two sources of one destination and left
\* the only source of another destination closed.
C31_Witness ==
    \E d, e \in Dsts :
       /\ Len(provenance[d]) = 2
       /\ Len(provenance[e]) = 1
       /\ opened = {provenance[d][1], provenance[d][2]}
       /\ provenance[e][1] \notin opened
       /\ outcome # "none"

\* The positions at which the Recorder's files name the path, and those at
\* which its copies have the path for destination.
FilesOf(path) ==
    {i \in DOMAIN installed_files : installed_files[i].path = path}
CopiesTo(path) == {i \in DOMAIN copies : copies[i][2] = path}

\* C32: after install_wheel has returned, every file the wheel ships under
\* its data directory is once among the Recorder's files and once among its
\* copies, as a copy of the wheel's entry to its destination under the
\* InstallPaths directory of its category, and never under its path inside
\* the data directory.
C32_DataFilesRecordedOnce ==
    ipc = "done" =>
       \A src \in wheel.names \cap DataPaths :
          /\ Cardinality(FilesOf(dest(src))) = 1
          /\ Cardinality(CopiesTo(dest(src))) = 1
          /\ \E i \in CopiesTo(dest(src)) : copies[i][1] = src
          /\ FilesOf(src) = {}
          /\ CopiesTo(src) = {}

\* The loop over the entry points has skipped the launcher of an entry
\* point because the spread step had produced a script of its name.
LauncherSkipped ==
    \E i \in DOMAIN wheel.entry_points :
       /\ i < next_ep
       /\ script_dst(wheel.entry_points[i].name) = ScriptDst
       /\ ScriptDst \in DOMAIN data_scripts

\* C33: when the launcher of an entry point has been skipped for a data
\* script of its name, entry_points.txt is among the sources recorded for
\* the script's destination in the copies.
C33_SkippedLauncherIsRecorded ==
    LauncherSkipped =>
       \E i \in CopiesTo(ScriptDst) :
          copies[i][1] = "p-1.dist-info/entry_points.txt"

\* C33, amended: when the launcher of an entry point has been skipped for
\* a data script of its name, nothing is recorded for the entry point: the
\* script's destination has one copy, from the wheel's data script, and one
\* entry among the Recorder's files.
C33_SkippedLauncherIsNotRecorded ==
    LauncherSkipped =>
       /\ Cardinality(CopiesTo(ScriptDst)) = 1
       /\ \A i \in CopiesTo(ScriptDst) : copies[i][1] = ScriptSrc
       /\ Cardinality(FilesOf(ScriptDst)) = 1
       /\ disk[ScriptDst].lines = process(wheel.script)

\* An install has returned after it skipped the launcher of "tool" and
\* wrote the one of "run".
C33_Witness ==
    /\ ipc = "done"
    /\ LauncherSkipped
    /\ CopiesTo("bin/run") # {}

\* The compiler has run and left the compiled file of the placed modules.
CompilerMade(path) ==
    /\ args.compile
    /\ ipc \notin {"unpack", "spread", "compile"}
    /\ disk[path] = File(<< <<"bytecode">> >>)

\* C34: with compile=True every compiled file the compiler made is among
\* the Recorder's files, and the compile step goes on to the entry points
\* whatever the compiler's exit code.
C34_CompiledFilesAreRecorded ==
    \A path \in PycPaths : CompilerMade(path) => FilesOf(path) # {}

\* C34, amended: the compile step always goes on to the entry points,
\* with a warning exactly when it ran the compiler and the compiler's exit
\* code was not zero, and it adds no compiled file to the Recorder's files:
\* the files are those recorded before it.
C34_CompileRecordsNothing ==
    [][(ipc = "compile" /\ ipc' # ipc) =>
          /\ ipc' = "entry_points"
          /\ err' = None
          /\ installed_files' = installed_files
          /\ copies' = copies
          /\ warned' => args.compile /\ py_files # {}
      ]_vars

\* An install with compile=True has returned: the compiler made the
\* compiled file, which the wheel did not ship, and exited with an error,
\* and the walk over the directory of the placed modules found the file.
C34_Witness ==
    /\ ipc = "done"
    /\ args.compile
    /\ warned
    /\ Cardinality(py_files) > 1
    /\ "__pycache__/m.cpython-311.pyc" \notin wheel.names
    /\ CompilerMade("__pycache__/m.cpython-311.pyc")

\* The entries of the walks' log that are files.
FileEntries == {i \in DOMAIN walk_log : walk_log[i].dst # "p-1.dist-info"}

\* A hard link of the walk of entry i has failed across devices at one of
\* the entries among "among".
Crossed(i, among) ==
    \E j \in among :
       /\ walk_log[j].walk = walk_log[i].walk
       /\ walk_log[j].tried_link
       /\ walk_log[j].how = "copy"

\* C35: in a legacy walk the file whose hard link fails across devices and
\* every later file of the walk is copied with no hard link tried; before
\* that every file that is no symbolic link is hard-linked; every file is
\* placed by a hard link or by a copy.
C35_EveryFileLinkedOrCopied ==
    \A i \in FileEntries :
       LET entry == walk_log[i]
       IN /\ entry.how \in {"link", "copy"}
          /\ Crossed(i, 1 .. i) => entry.how = "copy"
          /\ Crossed(i, 1 .. (i - 1)) => ~entry.tried_link
          /\ (~Crossed(i, 1 .. i) /\ entry.src \notin islinks) =>
                entry.how = "link"

\* C35, amended: in a legacy walk, after a hard link has failed across
\* devices no hard link is tried again, and the file it failed for and every
\* later file the walk does not symlink is copied, unless the copy fails;
\* before that a hard link is tried for every file that is neither
\* symlinked nor a symbolic link; a file is placed by one of link, copy and
\* symlink, or by none of them when its link or symlink finds the
\* destination in place or a call fails for another reason.
C35_LinkUntilCrossDevice ==
    \A i \in FileEntries :
       LET entry == walk_log[i]
       IN /\ entry.how \in {"link", "copy", "symlink", "none"}
          /\ entry.how = "none" <=> entry.errno # "none"
          /\ entry.how = "symlink" => symlinked(entry.src)
          /\ entry.how = "link" => entry.tried_link
          /\ Crossed(i, 1 .. (i - 1)) => ~entry.tried_link
          /\ (Crossed(i, 1 .. i) /\ ~symlinked(entry.src)) =>
                \/ entry.how = "copy"
                \/ entry.errno = "EACCES" /\ ~entry.tried_link
          /\ (~Crossed(i, 1 .. (i - 1)) /\ ~symlinked(entry.src)
                /\ entry.src \notin islinks) => entry.tried_link
          /\ (entry.how = "none" /\ entry.errno = "EEXIST") =>
                /\ entry.prior.exists
                /\ entry.tried_link \/ symlinked(entry.src)

\* A walk has linked a file, then failed to link the next across devices
\* and copied it, and copied a third without trying a link.
C35_Witness ==
    \E i \in FileEntries, j \in FileEntries, k \in FileEntries :
       /\ i < j /\ j < k
       /\ walk_log[i].walk = "site" /\ walk_log[k].walk = "site"
       /\ walk_log[i].how = "link"
       /\ walk_log[j].walk = "site"
       /\ walk_log[j].tried_link /\ walk_log[j].how = "copy"
       /\ ~walk_log[k].tried_link /\ walk_log[k].how = "copy"
       /\ walk_log[k].src \notin islinks

\* The pair of entry i of the walks' log has been handed to the caller.
Yielded(i) ==
    \E k \in DOMAIN consumed :
       consumed[k] = <<walk_log[i].src, walk_log[i].dst>>

C37_ExistingDestinationIsKept ==
    \A i \in FileEntries :
       (walk_log[i].prior = OldFile /\ walk_log[i].errno \in {"none", "EEXIST"})
          => disk[walk_log[i].dst] = OldFile

\* The entries of the site-packages walk that are the metadata directory
\* or a file inside it; the chroots hold one such file, the manifest.
MetadataEntries ==
    {i \in DOMAIN walk_log :
       walk_log[i].walk = "site"
          /\ walk_log[i].dst \in {"p-1.dist-info", relpath}}

\* C38: with symlink=True the metadata directory is made as a directory
\* and the files inside it are hard-linked or copied, never symlinked;
\* every other entry at the top of prefix_dir is symlinked.
C38_MetadataIsNeverSymlinked ==
    symlink =>
       /\ \A i \in MetadataEntries :
             /\ walk_log[i].how # "symlink"
             /\ walk_log[i].errno = "none" =>
                   walk_log[i].how \in {"mkdir", "link", "copy"}
       /\ \A i \in DOMAIN walk_log \ MetadataEntries :
             (walk_log[i].walk = "site" /\ walk_log[i].errno = "none")
                => walk_log[i].how = "symlink"

\* C39: a load that follows a save returns an InstalledWheel equal to the
\* one save returned: the same layout version, stash_dir, record_relpath,
\* fingerprint, data_dir and size.
C39_LoadReturnsWhatSaveReturned ==
    [][(saved # None /\ load_called = "none" /\ load_called' = "load")
          => (load_result'.raised = "none" /\ load_result'.value = saved)]_vars
====
